---- MODULE Spec2Model ----
(***************************************************************************)
(* AgentBus: a per-bus append-only log over a write-once address space,    *)
(* the Decider state machine, the counter workload with its                *)
(* linearizability checker, and the deterministic simulator.               *)
(*                                                                         *)
(* The module holds several specifications over one set of variables; each *)
(* specification leaves the variables of the other parts unchanged.        *)
(*   SpecSpace : cloned frontends of a channeled write-once space          *)
(*   SpecWO    : WriteOnceAgentBus handles and clones over that space      *)
(*   SpecWOLive: SpecWO with a backend that keeps serving, under fairness  *)
(*   SpecDecider: clients and the Decider over the in-memory log           *)
(*   SpecLin   : the counter workload with Decider, voter and tracker      *)
(*   SpecSim   : two runs of the deterministic simulator from one seed     *)
(*   SpecSeq   : one client calling WriteOnceAgentBus and the in-memory   *)
(*               log with the same sequence of propose and poll calls      *)
(*   SpecRun   : Decider::run over a bus whose proposes can fail          *)
(*   SpecVoter : the LLM Voter's run loop over a bus that can fail         *)
(*   SpecVoterLive: SpecVoter with a bus that recovers, under fairness     *)
(*   SpecPerm  : the permutations workload over the fault injector         *)
(*   SpecChain : the skip-commits counter over two chained replicas        *)
(*   SpecVerify: LinearizabilityTracker::verify on recorded inputs         *)
(*   SpecExec  : the simulator's executor over task graphs with sleeps,    *)
(*               oneshot channels and jitter, run twice                    *)
(*   SpecExecLive: SpecExec with a run that keeps iterating                *)
(*   SpecQuiet : WriteOnceAgentBus::poll on a bus nobody writes            *)
(*   SpecBacklog: the Decider over a log longer than one poll returns      *)
(*   SpecBacklogLive: SpecBacklog with a Decider that keeps running passes *)
(***************************************************************************)
EXTENDS Integers, Sequences, FiniteSets, TLC

VARIABLES
    spaces,          \* InMemoryWriteOnceSpaceState.spaces: space_id -> address -> Option<Bytes>
    chan,            \* ChanneledWriteOnceSpace: messages sent and not yet taken by the backend
    backendAlive,    \* the ChanneledWriteOnceSpaceBackend task still owns the receiver
    reply,           \* the oneshot reply channel of each client's outstanding call
    call,            \* each client's position in its current call, with the call's locals
    okCount,         \* history: number of Ok results produced per (space, address)
    firstWritten,    \* history: value of the first successful write per (space, address)
    next_positions,  \* WriteOnceAgentBusState.next_positions of each handle (absent = 0)
    nProposed,       \* history: number of propose calls started with a payload
    returned,        \* history: what each propose call returned to its caller
    buses,           \* InMemoryAgentBusState.buses: bus id -> entries
    decider,         \* the Decider's fields and the entries of its current pass
    workers,         \* counter workload: each worker's AgentBusCounter state and progress
    tracker,         \* LinearizabilityTracker: results and timestamps
    now,             \* the logical clock as last read
    stop,            \* stop_components
    voter,           \* RandomVoter: next_log_position and the entries of its current pass
    sim,             \* simulator: the Simulator of each of two runs, with its executor
    last_call,       \* sequential client: its last call with what both logs returned
    fault            \* a bus that can fail: its mode, the fates drawn, the forwards spawned

spaceVars == <<spaces, chan, backendAlive, reply>>
woVars == <<next_positions, nProposed, returned>>
decVars == <<buses, decider>>
linVars == <<workers, tracker, now, stop, voter>>
\* the variables outside the write-once space and its clients
outsideSpace == <<decVars, linVars, sim, last_call, fault>>
\* the variables outside the in-memory log and the Decider
outsideDecider == <<spaceVars, call, okCount, firstWritten, woVars, linVars, sim, last_call, fault>>
\* the variables outside the counter workload, its log and its Decider
outsideLin == <<spaceVars, call, okCount, firstWritten, woVars, sim, last_call, fault>>
\* the variables outside the simulator
outsideSim == <<spaceVars, call, okCount, firstWritten, woVars, decVars, linVars, last_call, fault>>
vars == <<spaces, chan, backendAlive, reply, call, okCount, firstWritten,
          next_positions, nProposed, returned, buses, decider,
          workers, tracker, now, stop, voter, sim, last_call, fault>>

(***************************************************************************)
(* Bounds of the model.                                                    *)
(***************************************************************************)
\* InMemoryAgentBusState::new: no bus is materialized
NoBuses == [b \in {} |-> <<>>]
\* no Decider has been constructed
DeciderIdle == [next_log_position |-> 0, current_decider_policy |-> "", intention_states |-> <<>>,
                batch |-> <<>>, in_pass |-> FALSE]

\* RandomVoter::new
VoterNew == [next_log_position |-> 0, batch |-> <<>>, in_pass |-> FALSE]
\* LinearizabilityTracker::new
TrackerNew == [results |-> <<>>, timestamps |-> <<>>]
\* no Decider and no workload exist
DeciderUnused == buses = NoBuses /\ decider = DeciderIdle
LinUnused ==
    /\ workers = <<>> /\ tracker = TrackerNew /\ now = 0
    /\ stop = FALSE /\ voter = VoterNew
\* no Simulator has been constructed
SimUnused == sim = <<>>
\* no sequential client has made a call
SeqUnused == last_call = <<>>
FaultUnused == fault = <<>>

NumFrontends == 2      \* cloned frontends of one channeled space
MaxAddr == 1           \* raw clients address cells 0..MaxAddr

Frontends == 1..NumFrontends
SpaceIds == {"space-a"}
Addrs == 0..MaxAddr
\* the byte string frontend f writes: distinct writers write distinct values
RawValue(f) == <<f>>

(***************************************************************************)
(* Option<Bytes> and WriteOnceResult<()>                                   *)
(***************************************************************************)
None == [some |-> FALSE, bytes |-> <<>>]
Some(b) == [some |-> TRUE, bytes |-> b]

ResOk == [tag |-> "Ok", addr |-> 0]
AddressAlreadyExists(a) == [tag |-> "AddressAlreadyExists", addr |-> a]
BackendUnavailable == [tag |-> "BackendUnavailable", addr |-> 0]

(***************************************************************************)
(* InMemoryWriteOnceSpaceState                                             *)
(***************************************************************************)
\* contains_key(address) of the space's map
Occupied(sp, s, a) == s \in DOMAIN sp /\ a \in DOMAIN sp[s] /\ sp[s][a].some

\* A write that inserts without looking at the address first.
StateWriteOverwrite(sp, s, a, v) ==
    [spaces |-> [sp EXCEPT ![s][a] = Some(v)], result |-> ResOk]

\* write: the new map together with the result returned
StateWrite(sp, s, a, v) ==
    IF Occupied(sp, s, a)
    THEN [spaces |-> sp, result |-> AddressAlreadyExists(a)]
    ELSE [spaces |-> [sp EXCEPT ![s][a] = Some(v)], result |-> ResOk]

\* read
StateRead(sp, s, a) == IF s \in DOMAIN sp /\ a \in DOMAIN sp[s] THEN sp[s][a] ELSE None

(***************************************************************************)
(* ChanneledWriteOnceSpace: frontends send a message and await a oneshot   *)
(* reply; the backend task takes the messages in order.                    *)
(***************************************************************************)
NoReply == [state |-> "none", result |-> ResOk, value |-> None]
WriteReply(r) == [state |-> "ready", result |-> r, value |-> None]
ReadReply(v) == [state |-> "ready", result |-> ResOk, value |-> v]
\* the sender half was dropped: the receiver resolves to Canceled
Canceled == [state |-> "canceled", result |-> ResOk, value |-> None]

WriteMsg(p, s, a, v) == [kind |-> "Write", from |-> p, space |-> s, address |-> a, value |-> v]
ReadMsg(p, s, a) == [kind |-> "Read", from |-> p, space |-> s, address |-> a, value |-> <<>>]

\* Backend run loop, one message: delegate to the space and send the reply.
BackendStep ==
    /\ backendAlive
    /\ chan # <<>>
    /\ LET m == Head(chan) IN
        /\ chan' = Tail(chan)
        /\ IF m.kind = "Write"
           THEN LET w == StateWrite(spaces, m.space, m.address, m.value) IN
                /\ spaces' = w.spaces
                /\ reply' = [reply EXCEPT ![m.from] = WriteReply(w.result)]
                /\ okCount' = IF w.result.tag = "Ok"
                              THEN [okCount EXCEPT ![m.space][m.address] = @ + 1]
                              ELSE okCount
                /\ firstWritten' = IF w.result.tag = "Ok" /\ ~firstWritten[m.space][m.address].some
                                   THEN [firstWritten EXCEPT ![m.space][m.address] = Some(m.value)]
                                   ELSE firstWritten
           ELSE /\ reply' = [reply EXCEPT ![m.from] = ReadReply(StateRead(spaces, m.space, m.address))]
                /\ UNCHANGED <<spaces, okCount, firstWritten>>
    /\ UNCHANGED <<backendAlive, call, woVars, outsideSpace>>

\* The backend task ends: the receiver and every reply sender it held are dropped.
BackendStop ==
    /\ backendAlive
    /\ backendAlive' = FALSE
    /\ chan' = <<>>
    /\ reply' = [p \in DOMAIN reply |->
                   IF \E i \in 1..Len(chan) : chan[i].from = p THEN Canceled ELSE reply[p]]
    /\ UNCHANGED <<spaces, call, okCount, firstWritten, woVars, outsideSpace>>

\* call_write's result once the reply channel resolves
CallWriteResult(r) == IF r.state = "ready" THEN r.result ELSE BackendUnavailable
\* call_read's result once the reply channel resolves
CallReadResult(r) == IF r.state = "ready" THEN r.value ELSE None

(***************************************************************************)
(* Raw clients of the space (test scenarios of the write-once space):      *)
(* each frontend clone issues write and read calls at addresses it picks.  *)
(***************************************************************************)
RawIdle == [op |-> "idle", space |-> "space-a", address |-> 0, value |-> <<>>,
            bound |-> FALSE]

RawWriteSend(f, s, a, v) ==
    /\ call[f].op = "idle"
    /\ IF backendAlive
       THEN /\ chan' = Append(chan, WriteMsg(f, s, a, v))
            /\ reply' = [reply EXCEPT ![f] = NoReply]
       ELSE \* unbounded_send fails
            /\ reply' = [reply EXCEPT ![f] = Canceled]
            /\ chan' = chan
    /\ call' = [call EXCEPT ![f] = [op |-> "write", space |-> s, address |-> a, value |-> v,
                                   bound |-> Occupied(spaces, s, a)]]
    /\ UNCHANGED <<spaces, backendAlive, okCount, firstWritten, woVars, outsideSpace>>

RawReadSend(f, s, a) ==
    /\ call[f].op = "idle"
    /\ IF backendAlive
       THEN /\ chan' = Append(chan, ReadMsg(f, s, a))
            /\ reply' = [reply EXCEPT ![f] = NoReply]
       ELSE /\ reply' = [reply EXCEPT ![f] = Canceled]
            /\ chan' = chan
    /\ call' = [call EXCEPT ![f] = [op |-> "read", space |-> s, address |-> a, value |-> <<>>,
                                   bound |-> Occupied(spaces, s, a)]]
    /\ UNCHANGED <<spaces, backendAlive, okCount, firstWritten, woVars, outsideSpace>>

\* The awaiting call resumes with its reply and returns it to the client.
RawReturn(f) ==
    /\ call[f].op \in {"write", "read"}
    /\ reply[f].state # "none"
    /\ call' = [call EXCEPT ![f] = RawIdle]
    /\ reply' = [reply EXCEPT ![f] = NoReply]
    /\ UNCHANGED <<spaces, chan, backendAlive, okCount, firstWritten, woVars, outsideSpace>>

InitSpace ==
    /\ spaces = [s \in SpaceIds |-> [a \in Addrs |-> None]]
    /\ chan = <<>>
    /\ backendAlive = TRUE
    /\ reply = [f \in Frontends |-> NoReply]
    /\ call = [f \in Frontends |-> RawIdle]
    /\ okCount = [s \in SpaceIds |-> [a \in Addrs |-> 0]]
    /\ firstWritten = [s \in SpaceIds |-> [a \in Addrs |-> None]]
    /\ next_positions = <<>>
    /\ nProposed = 0
    /\ returned = <<>>
    /\ DeciderUnused
    /\ LinUnused
    /\ SimUnused
    /\ SeqUnused /\ FaultUnused

NextSpace ==
    \/ \E f \in Frontends, s \in SpaceIds, a \in Addrs : RawWriteSend(f, s, a, RawValue(f))
    \/ \E f \in Frontends, s \in SpaceIds, a \in Addrs : RawReadSend(f, s, a)
    \/ \E f \in Frontends : RawReturn(f)
    \/ BackendStep
    \/ BackendStop

SpecSpace == InitSpace /\ [][NextSpace]_vars

(***************************************************************************)
(* Bus identifiers (strings, as sequences of characters) and validation.   *)
(***************************************************************************)
MIN_BUS_ID_LEN == 1
MAX_BUS_ID_LEN == 256

AsciiAlphanumeric ==
    {"a", "b", "c", "d", "e", "f", "g", "h", "i", "j", "k", "l", "m",
     "n", "o", "p", "q", "r", "s", "t", "u", "v", "w", "x", "y", "z",
     "A", "B", "C", "D", "E", "F", "G", "H", "I", "J", "K", "L", "M",
     "N", "O", "P", "Q", "R", "S", "T", "U", "V", "W", "X", "Y", "Z",
     "0", "1", "2", "3", "4", "5", "6", "7", "8", "9"}

is_valid_bus_id_char(c) == c \in AsciiAlphanumeric \/ c = "-" \/ c = "_" \/ c = "." \/ c = "/"

\* A validation without the upper bound on the length.
validate_bus_idNoMax(bus_id) ==
    /\ ~(Len(bus_id) < MIN_BUS_ID_LEN)
    /\ \A i \in 1..Len(bus_id) : is_valid_bus_id_char(bus_id[i])

validate_bus_id(bus_id) ==
    /\ ~(Len(bus_id) < MIN_BUS_ID_LEN \/ Len(bus_id) > MAX_BUS_ID_LEN)
    /\ \A i \in 1..Len(bus_id) : is_valid_bus_id_char(bus_id[i])

BusA == <<"b", "u", "s", "-", "1">>
BadBus == <<"b", " ", "1">>
ValidBusIds == {BusA}
RequestBusIds == {BusA, BadBus}

(***************************************************************************)
(* Payloads, their SelectivePollType, and the byte codec.                  *)
(***************************************************************************)
PayloadKinds == <<"Intention", "Vote", "DeciderPolicy", "VoterPolicy", "Commit", "Abort",
                  "Control", "InferenceInput", "InferenceOutput", "ActionOutput",
                  "AgentInput", "AgentOutput">>

\* kind: the oneof case; ref: intention_id; val: the vote's value or the policy;
\* text: body or reason; llm: the vote's ExternalLlmVoteInfo
NoLlm == [some |-> FALSE, model |-> "", reason |-> ""]
Llm(model, reason) == [some |-> TRUE, model |-> model, reason |-> reason]
MkPayload(k, r, v, t) == [kind |-> k, ref |-> r, val |-> v, text |-> t, llm |-> NoLlm]
\* request.payload = None
NoPayload == MkPayload("NoPayload", 0, "", "")
\* Payload { payload: None }: a payload message whose oneof is not set
EmptyPayload == MkPayload("Empty", 0, "", "")
\* the bytes do not decode
DecodeError == MkPayload("DecodeError", 0, "", "")
Intention(body) == MkPayload("Intention", 0, "", body)

\* get_payload_type: the SelectivePollType of a payload, or None for an empty payload
HasPayloadType(pl) == \E i \in 1..Len(PayloadKinds) : PayloadKinds[i] = pl.kind
get_payload_type(pl) == pl.kind

NoFilter == [some |-> FALSE, types |-> {}]
FilterOf(types) == [some |-> TRUE, types |-> types]

\* A filter that lets every payload through.
payload_matches_filterAny(pl, filter) == TRUE

payload_matches_filter(pl, filter) ==
    IF ~filter.some THEN TRUE
    ELSE IF HasPayloadType(pl) THEN get_payload_type(pl) \in filter.types
    ELSE FALSE

TagOf(kind) == CHOOSE i \in 1..Len(PayloadKinds) : PayloadKinds[i] = kind

\* encode_to_vec: the oneof's field tag followed by the fields; nothing for an unset oneof
serialize_payload(pl) ==
    IF pl.kind = "Empty" THEN <<>> ELSE <<TagOf(pl.kind), pl.ref, pl.val, pl.text, pl.llm>>

\* A decoder that takes the empty message for bytes that are no message.
deserialize_payloadStrict(bytes) ==
    IF Len(bytes) # 5 THEN DecodeError
    ELSE IF bytes[1] \in 1..Len(PayloadKinds)
         THEN [MkPayload(PayloadKinds[bytes[1]], bytes[2], bytes[3], bytes[4])
                 EXCEPT !.llm = bytes[5]]
         ELSE EmptyPayload

\* decode(..).ok(): a message with an unknown field tag decodes to an unset oneof,
\* bytes that are no message do not decode
deserialize_payload(bytes) ==
    IF bytes = <<>> THEN EmptyPayload
    ELSE IF Len(bytes) # 5 THEN DecodeError
    ELSE IF bytes[1] \in 1..Len(PayloadKinds)
         THEN [MkPayload(PayloadKinds[bytes[1]], bytes[2], bytes[3], bytes[4])
                 EXCEPT !.llm = bytes[5]]
         ELSE EmptyPayload

(***************************************************************************)
(* WriteOnceAgentBus over the channeled space.                             *)
(* Client tasks 1..NumProcs each hold a handle; tasks of one handle are    *)
(* clones that share its next_positions cache.                             *)
(***************************************************************************)
NumProcs == 3          \* client tasks
MaxProposals == 3      \* propose calls that reach the write loop
MaxPolling == 1        \* poll calls in flight at once
MAX_POLL_ENTRIES == 64

Procs == 1..NumProcs
HandleOf(p) == (p + 1) \div 2
Handles == {HandleOf(p) : p \in Procs}
Positions == 0..(2 * MaxProposals + 2)
BodyNames == <<"op1", "op2", "op3", "op4", "op5", "op6", "op7", "op8">>
Body(n) == BodyNames[n]

Min(a, b) == IF a < b THEN a ELSE b
Max(a, b) == IF a > b THEN a ELSE b

get_next_position(np, h, bus) == IF bus \in DOMAIN np[h] THEN np[h][bus] ELSE 0
\* A cache with one position for all buses.
set_next_positionShared(np, h, bus, position) ==
    IF bus \in DOMAIN np[h] THEN [np EXCEPT ![h] = [b \in DOMAIN np[h] |-> position]] ELSE np

\* A cache set one past the position it was given.
set_next_positionAhead(np, h, bus, position) ==
    IF bus \in DOMAIN np[h] THEN [np EXCEPT ![h][bus] = position + 1] ELSE np

set_next_position(np, h, bus, position) ==
    IF bus \in DOMAIN np[h] THEN [np EXCEPT ![h][bus] = position] ELSE np

\* A cap that takes the request's max_entries as it comes.
PollMaxEntriesUncapped(max_entries) ==
    IF max_entries < 0 THEN MAX_POLL_ENTRIES ELSE max_entries

\* request.max_entries as usize, capped
PollMaxEntries(max_entries) ==
    IF max_entries < 0 THEN MAX_POLL_ENTRIES ELSE Min(max_entries, MAX_POLL_ENTRIES)

WoIdle == [op |-> "idle", phase |-> "", bus |-> BusA, bytes |-> <<>>, id |-> 0,
           position |-> 0, start |-> 0, max_entries |-> 0, filter |-> NoFilter,
           end_position |-> 0, pos |-> 0, entries |-> <<>>, complete |-> TRUE,
           quiet |-> FALSE, after |-> {}, ok |-> TRUE, err |-> ""]

\* A finished call holding what it returns to its caller.
ProposeDone(c, isOk, e) ==
    [WoIdle EXCEPT !.op = "done", !.phase = "propose", !.bus = c.bus, !.id = c.id,
                   !.position = c.position, !.ok = isOk, !.err = e]
PollDone(c, es, compl) ==
    [WoIdle EXCEPT !.op = "done", !.phase = "poll", !.bus = c.bus, !.start = c.start,
                   !.max_entries = c.max_entries, !.filter = c.filter,
                   !.end_position = c.end_position, !.quiet = c.quiet, !.after = c.after,
                   !.entries = es, !.complete = compl]

\* the space's write / read call of client p: the message is sent, or the send fails
SendToSpace(p, m) ==
    IF backendAlive
    THEN /\ chan' = Append(chan, m)
         /\ reply' = [reply EXCEPT ![p] = NoReply]
    ELSE /\ chan' = chan
         /\ reply' = [reply EXCEPT ![p] = Canceled]

\* largest position a completed propose of handle h has returned (-1 if none)
MaxReturned(h) ==
    LET ps == {returned[i].pos : i \in {j \in 1..Len(returned) :
                   returned[j].state = "ok" /\ returned[j].handle = h}}
    IN IF ps = {} THEN -1 ELSE CHOOSE m \in ps : \A q \in ps : q <= m

\* propose: validation and payload checks fail before anything is touched
ProposeInvalid(p, bus, pl) ==
    /\ call[p].op = "idle"
    /\ ~validate_bus_id(bus) \/ pl = NoPayload
    /\ call' = [call EXCEPT ![p] =
                  ProposeDone([WoIdle EXCEPT !.bus = bus], FALSE,
                              IF ~validate_bus_id(bus) THEN "InvalidBusId" ELSE "MissingPayload")]
    /\ UNCHANGED <<spaceVars, okCount, firstWritten, woVars, outsideSpace>>

\* propose: read the cached position and attempt the first write
ProposeStart(p, bus, pl) ==
    /\ call[p].op = "idle"
    /\ validate_bus_id(bus) /\ pl # NoPayload
    /\ nProposed < MaxProposals
    /\ LET position == get_next_position(next_positions, HandleOf(p), bus)
           serialized == serialize_payload(pl) IN
        /\ SendToSpace(p, WriteMsg(p, bus, position, serialized))
        /\ call' = [q \in Procs |->
                      IF q = p
                      THEN [WoIdle EXCEPT !.op = "propose", !.phase = "write", !.bus = bus,
                                          !.bytes = serialized, !.id = nProposed + 1,
                                          !.position = position]
                      ELSE [call[q] EXCEPT !.quiet = FALSE]]
        /\ returned' = Append(returned, [state |-> "pending", handle |-> HandleOf(p),
                                        pos |-> -1, first |-> position,
                                        prior |-> MaxReturned(HandleOf(p)),
                                        bytes |-> serialized, err |-> ""])
    /\ nProposed' = nProposed + 1
    /\ UNCHANGED <<spaces, backendAlive, okCount, firstWritten, next_positions, outsideSpace>>

\* A conflict that skips a cell.
NextAfterConflictSkip(position) == position + 2

\* the position retried after AddressAlreadyExists
NextAfterConflict(position) == position + 1

\* A propose that gives the conflict back to its caller.
ProposeOutcomeSurface(r) ==
    IF r.tag = "Ok" THEN "ok" ELSE "fail"

\* A propose that takes a conflict for a claim.
ProposeOutcomeAssumeWon(r) ==
    IF r.tag = "Ok" \/ r.tag = "AddressAlreadyExists" THEN "ok" ELSE "fail"

\* A propose that retries whatever the write reports.
ProposeOutcomeRetryAll(r) ==
    IF r.tag = "Ok" THEN "ok" ELSE "retry"

\* the arm of the write loop taken for a write result
ProposeOutcome(r) ==
    IF r.tag = "Ok" THEN "ok"
    ELSE IF r.tag = "AddressAlreadyExists" THEN "retry"
    ELSE "fail"

\* propose: the write loop resumes with the result of its write; what propose
\* returns is recorded in `returned` (for an error, with the position whose write failed)
ProposeResume(p) ==
    /\ call[p].op = "propose"
    /\ reply[p].state # "none"
    /\ LET c == call[p]
           r == CallWriteResult(reply[p])
           h == HandleOf(p) IN
       CASE ProposeOutcome(r) = "ok" ->
              /\ next_positions' = set_next_position(next_positions, h, c.bus, c.position + 1)
              /\ returned' = [returned EXCEPT ![c.id].state = "ok", ![c.id].pos = c.position]
              /\ call' = [call EXCEPT ![p] = WoIdle]
              /\ reply' = [reply EXCEPT ![p] = NoReply]
              /\ chan' = chan
         [] ProposeOutcome(r) = "retry" ->
              /\ SendToSpace(p, WriteMsg(p, c.bus, NextAfterConflict(c.position), c.bytes))
              /\ call' = [call EXCEPT ![p].position = NextAfterConflict(c.position)]
              /\ UNCHANGED <<next_positions, returned>>
         [] OTHER ->
              /\ returned' = [returned EXCEPT ![c.id].state = "err", ![c.id].err = r.tag,
                                              ![c.id].pos = c.position]
              /\ call' = [call EXCEPT ![p] = WoIdle]
              /\ reply' = [reply EXCEPT ![p] = NoReply]
              /\ chan' = chan
              /\ UNCHANGED next_positions
    /\ UNCHANGED <<spaces, backendAlive, okCount, firstWritten, nProposed, outsideSpace>>

\* A scan that takes the cached position for the tail.
ScanContinuesNever(v) == FALSE

\* the tail scan's loop condition: the cell read is present
ScanContinues(v) == v.some

\* poll: clamp the request, answer an empty filter at once, else start the tail scan;
\* the call keeps the proposes that had returned when it was invoked (`after`) and
\* whether none was in flight (`quiet`)
PollBegin(p, bus, start, max, filter) ==
    /\ call[p].op = "idle"
    /\ Cardinality({q \in Procs : call[q].phase \in {"scan", "walk", "poll"}}) < MaxPolling
    /\ LET c == [WoIdle EXCEPT !.op = "poll", !.bus = bus, !.start = Max(start, 0),
                               !.max_entries = PollMaxEntries(max), !.filter = filter,
                               !.quiet = \A q \in Procs : call[q].op # "propose",
                               !.after = {i \in 1..Len(returned) :
                                             returned[i].state = "ok"}] IN
       IF filter.some /\ filter.types = {}
       THEN /\ call' = [call EXCEPT ![p] = PollDone(c, <<>>, TRUE)]
            /\ UNCHANGED <<chan, reply>>
       ELSE LET end_position == get_next_position(next_positions, HandleOf(p), bus) IN
            /\ SendToSpace(p, ReadMsg(p, bus, end_position))
            /\ call' = [call EXCEPT ![p] = [c EXCEPT !.phase = "scan",
                                                     !.end_position = end_position]]
    /\ UNCHANGED <<spaces, backendAlive, okCount, firstWritten, woVars, outsideSpace>>

\* poll: the tail scan resumes with a read; at the first empty cell the cache is set
\* and the walk from the start position begins
PollScanResume(p) ==
    /\ call[p].op = "poll" /\ call[p].phase = "scan"
    /\ reply[p].state # "none"
    /\ LET c == call[p]
           v == CallReadResult(reply[p]) IN
       IF ScanContinues(v)
       THEN /\ SendToSpace(p, ReadMsg(p, c.bus, c.end_position + 1))
            /\ call' = [call EXCEPT ![p].end_position = c.end_position + 1]
            /\ UNCHANGED next_positions
       ELSE /\ next_positions' = set_next_position(next_positions, HandleOf(p), c.bus,
                                                   c.end_position)
            /\ IF c.end_position = 0 \/ ~(c.start < c.end_position)
               THEN /\ call' = [call EXCEPT ![p] = PollDone(c, <<>>, TRUE)]
                    /\ reply' = [reply EXCEPT ![p] = NoReply]
                    /\ chan' = chan
               ELSE /\ SendToSpace(p, ReadMsg(p, c.bus, c.start))
                    /\ call' = [call EXCEPT ![p].phase = "walk", ![p].pos = c.start]
    /\ UNCHANGED <<spaces, backendAlive, okCount, firstWritten, nProposed, returned, outsideSpace>>

\* poll: the walk resumes with the cell at pos: decode, filter, cap, collect
PollWalkResume(p) ==
    /\ call[p].op = "poll" /\ call[p].phase = "walk"
    /\ reply[p].state # "none"
    /\ LET c == call[p]
           v == CallReadResult(reply[p])
           pl == deserialize_payload(v.bytes)
           matches == v.some /\ pl # DecodeError /\ payload_matches_filter(pl, c.filter)
           full == matches /\ Len(c.entries) >= c.max_entries
           es == IF matches /\ ~full
                 THEN Append(c.entries, [log_position |-> c.pos, payload |-> pl])
                 ELSE c.entries IN
       IF full
       THEN /\ call' = [call EXCEPT ![p] = PollDone(c, c.entries, FALSE)]
            /\ reply' = [reply EXCEPT ![p] = NoReply]
            /\ chan' = chan
       ELSE IF c.pos + 1 < c.end_position
       THEN /\ SendToSpace(p, ReadMsg(p, c.bus, c.pos + 1))
            /\ call' = [call EXCEPT ![p].pos = c.pos + 1, ![p].entries = es]
       ELSE /\ call' = [call EXCEPT ![p] = PollDone(c, es, TRUE)]
            /\ reply' = [reply EXCEPT ![p] = NoReply]
            /\ chan' = chan
    /\ UNCHANGED <<spaces, backendAlive, okCount, firstWritten, woVars, outsideSpace>>

\* the finished call's result is handed to the caller
Return(p) ==
    /\ call[p].op = "done"
    /\ call' = [call EXCEPT ![p] = WoIdle]
    /\ UNCHANGED <<spaceVars, okCount, firstWritten, woVars, outsideSpace>>

\* the tasks that also poll: a clone of the shared handle and the independent handle
Pollers == {p \in Procs : p >= 2}
PollRequest(bus, start, max, filter) ==
    [bus_id |-> bus, start_log_position |-> start, max_entries |-> max, filter |-> filter]
PollRequests ==
    {PollRequest(BusA, 0, 1000, NoFilter),
     PollRequest(BusA, 1, 1, FilterOf({"Intention"})),
     PollRequest(BadBus, 0, 1000, FilterOf({}))}

\* WriteOnceAgentBus::new on every handle over an empty space
WoNew ==
    /\ spaces = [b \in ValidBusIds |-> [a \in Positions |-> None]]
    /\ chan = <<>>
    /\ backendAlive = TRUE
    /\ reply = [p \in Procs |-> NoReply]
    /\ call = [p \in Procs |-> WoIdle]
    /\ okCount = [b \in ValidBusIds |-> [a \in Positions |-> 0]]
    /\ firstWritten = [b \in ValidBusIds |-> [a \in Positions |-> None]]
    /\ next_positions = [h \in Handles |-> [b \in ValidBusIds |-> 0]]
    /\ nProposed = 0
    /\ returned = <<>>

InitWO == WoNew /\ DeciderUnused /\ LinUnused /\ SimUnused /\ SeqUnused /\ FaultUnused

NextWO ==
    \/ \E p \in Procs : ProposeStart(p, BusA, Intention(Body(nProposed + 1)))
    \/ \E p \in Procs : ProposeResume(p)
    \/ \E p \in Pollers, rq \in PollRequests :
          PollBegin(p, rq.bus_id, rq.start_log_position, rq.max_entries, rq.filter)
    \/ \E p \in Procs : PollScanResume(p)
    \/ \E p \in Procs : PollWalkResume(p)
    \/ \E p \in Procs : Return(p)
    \/ BackendStep
    \/ BackendStop

SpecWO == InitWO /\ [][NextWO]_vars

\* The space never fails: the backend task keeps serving and every started call is
\* resumed by the executor.
NextWOLive ==
    \/ \E p \in Procs : ProposeStart(p, BusA, Intention(Body(nProposed + 1)))
    \/ \E p \in Procs : ProposeResume(p)
    \/ \E p \in Pollers, rq \in PollRequests :
          PollBegin(p, rq.bus_id, rq.start_log_position, rq.max_entries, rq.filter)
    \/ \E p \in Procs : PollScanResume(p)
    \/ \E p \in Procs : PollWalkResume(p)
    \/ \E p \in Procs : Return(p)
    \/ BackendStep

SpecWOLive ==
    /\ InitWO
    /\ [][NextWOLive]_vars
    /\ WF_vars(BackendStep)
    /\ \A p \in Procs : WF_vars(ProposeResume(p))

(***************************************************************************)
(* The in-memory log (InMemoryAgentBusState).                              *)
(***************************************************************************)
\* propose: validate, require a payload, append at position = bus.len()
MemPropose(bs, bus_id, pl) ==
    IF ~validate_bus_id(bus_id) THEN [buses |-> bs, ok |-> FALSE, log_position |-> -1]
    ELSE IF pl = NoPayload THEN [buses |-> bs, ok |-> FALSE, log_position |-> -1]
    ELSE LET bus == IF bus_id \in DOMAIN bs THEN bs[bus_id] ELSE <<>> IN
         [buses |-> [b \in DOMAIN bs \cup {bus_id} |-> IF b = bus_id THEN Append(bus, pl) ELSE bs[b]],
          ok |-> TRUE, log_position |-> Len(bus)]

RECURSIVE FetchFrom(_, _, _, _, _)
\* the loop of fetch_entries over bus[i..], i counted from 1
FetchFrom(bus, i, max_entries, filter, result) ==
    IF i > Len(bus) THEN [entries |-> result, complete |-> TRUE]
    ELSE IF ~payload_matches_filter(bus[i], filter)
         THEN FetchFrom(bus, i + 1, max_entries, filter, result)
    ELSE IF Len(result) >= max_entries THEN [entries |-> result, complete |-> FALSE]
    ELSE FetchFrom(bus, i + 1, max_entries, filter,
                   Append(result, [log_position |-> i - 1, payload |-> bus[i]]))

\* A fetch that answers a request for no entries without looking at the bus.
fetch_entriesZeroComplete(bs, bus_id, start_position, max_entries, filter) ==
    IF bus_id \notin DOMAIN bs THEN [entries |-> <<>>, complete |-> TRUE]
    ELSE IF filter.some /\ filter.types = {} THEN [entries |-> <<>>, complete |-> TRUE]
    ELSE IF max_entries = 0 THEN [entries |-> <<>>, complete |-> TRUE]
    ELSE FetchFrom(bs[bus_id], Max(start_position, 0) + 1, max_entries, filter, <<>>)

fetch_entries(bs, bus_id, start_position, max_entries, filter) ==
    IF bus_id \notin DOMAIN bs THEN [entries |-> <<>>, complete |-> TRUE]
    ELSE IF filter.some /\ filter.types = {} THEN [entries |-> <<>>, complete |-> TRUE]
    ELSE FetchFrom(bs[bus_id], Max(start_position, 0) + 1, max_entries, filter, <<>>)

MemPoll(bs, rq) ==
    fetch_entries(bs, rq.bus_id, rq.start_log_position, PollMaxEntries(rq.max_entries), rq.filter)

(***************************************************************************)
(* Vote trackers and the Decider.                                          *)
(***************************************************************************)
Vote(intention_id, value, info) ==
    [MkPayload("Vote", intention_id, value, "") EXCEPT !.llm = info]
DeciderPolicy(policy) == MkPayload("DeciderPolicy", 0, policy, "")
Commit(intention_id, reason) == MkPayload("Commit", intention_id, "", reason)
Abort(intention_id, reason) == MkPayload("Abort", intention_id, "", reason)

NoDecision == [some |-> FALSE, commit |-> FALSE, reason |-> ""]
Decision(commit, reason) == [some |-> TRUE, commit |-> commit, reason |-> reason]

\* a VoteRecord: its concrete type, decision: Option<bool>, reason: Option<String>
Tracker(type) == [type |-> type, decision |-> "none", reason |-> [some |-> FALSE, text |-> ""]]

create_vote_tracker_for_decider_policy(decider_policy) ==
    IF decider_policy = "OnByDefault" THEN Tracker("OnByDefaultTracker")
    ELSE IF decider_policy = "FirstBooleanWins" THEN Tracker("FirstVoterWinsTracker")
    ELSE IF decider_policy = "OffByDefault" THEN Tracker("OffByDefaultTracker")
    ELSE Tracker("FirstVoterWinsTracker")

\* A register that commits whatever the tracker.
registerEager(tr) ==
    [tracker |-> [tr EXCEPT !.decision = "true"], decision |-> Decision(TRUE, "ON_BY_DEFAULT policy")]

\* VoteRecord::register
register(tr) ==
    IF tr.type = "OnByDefaultTracker"
    THEN [tracker |-> [tr EXCEPT !.decision = "true"],
          decision |-> Decision(TRUE, "ON_BY_DEFAULT policy")]
    ELSE IF tr.type = "OffByDefaultTracker"
    THEN [tracker |-> [tr EXCEPT !.decision = "false"],
          decision |-> Decision(FALSE, "OFF_BY_DEFAULT policy")]
    ELSE [tracker |-> tr, decision |-> NoDecision]

\* A tracker that takes any vote for a boolean one.
IsBooleanVoteAny(vote) == TRUE

\* the vote carries a BooleanVote
IsBooleanVote(vote) == vote.val \in {"true", "false"}

ReasonOrDefault(reason) == IF reason.some THEN reason.text ELSE "No reason provided"

\* VoteRecord::apply_vote
apply_vote(tr, vote) ==
    IF tr.type = "OnByDefaultTracker"
    THEN [tracker |-> tr,
          decision |-> IF tr.decision = "none" THEN NoDecision
                       ELSE Decision(tr.decision = "true", "ON_BY_DEFAULT policy")]
    ELSE IF tr.type = "OffByDefaultTracker"
    THEN [tracker |-> tr,
          decision |-> IF tr.decision = "none" THEN NoDecision
                       ELSE Decision(tr.decision = "true", "OFF_BY_DEFAULT policy")]
    ELSE IF tr.decision # "none"
    THEN [tracker |-> tr,
          decision |-> Decision(tr.decision = "true", ReasonOrDefault(tr.reason))]
    ELSE IF IsBooleanVote(vote)
    THEN LET reason == IF vote.llm.some
                       THEN [some |-> TRUE,
                             text |-> "[" \o vote.llm.model \o "] " \o vote.llm.reason]
                       ELSE tr.reason IN
         [tracker |-> [tr EXCEPT !.decision = vote.val, !.reason = reason],
          decision |-> Decision(vote.val = "true", ReasonOrDefault(reason))]
    ELSE [tracker |-> tr, decision |-> NoDecision]

MaxClientEntries == 3  \* entries the clients append to the Decider's bus
MaxVoteId == 1         \* votes name intention ids 0..MaxVoteId

BusD == BusA
DeciderPolicies == {"OnByDefault", "OffByDefault", "FirstBooleanWins"}
DeciderFilter == FilterOf({"Intention", "Vote", "DeciderPolicy", "VoterPolicy", "Commit", "Abort"})

\* Decider::new
DeciderNew(initial_decider_policy) ==
    [next_log_position |-> 0, current_decider_policy |-> initial_decider_policy,
     intention_states |-> <<>>, batch |-> <<>>, in_pass |-> FALSE]

Log == IF BusD \in DOMAIN buses THEN buses[BusD] ELSE <<>>
IsVerdict(pl) == pl.kind = "Commit" \/ pl.kind = "Abort"
ClientEntryCount == Cardinality({i \in 1..Len(Log) : ~IsVerdict(Log[i])})

\* a client appends an intention, a vote or a policy entry
ClientPropose(pl) ==
    /\ ClientEntryCount < MaxClientEntries
    /\ buses' = MemPropose(buses, BusD, pl).buses
    /\ UNCHANGED <<decider, outsideDecider>>

\* A pass that polls the log from its start.
DeciderPollFromStart ==
    /\ ~decider.in_pass
    /\ LET response == MemPoll(buses, PollRequest(BusD, 0, 64, DeciderFilter)) IN
        decider' = [decider EXCEPT !.batch = response.entries,
                                   !.in_pass = response.entries # <<>>]
    /\ UNCHANGED <<buses, outsideDecider>>

\* poll_and_decide: the poll of a pass, from next_log_position
DeciderPoll ==
    /\ ~decider.in_pass
    /\ LET response == MemPoll(buses, PollRequest(BusD, decider.next_log_position, 64,
                                                  DeciderFilter)) IN
        decider' = [decider EXCEPT !.batch = response.entries,
                                   !.in_pass = response.entries # <<>>]
    /\ UNCHANGED <<buses, outsideDecider>>

\* propose_decision: the verdict entry
DecisionPayload(intention_id, d) ==
    IF d.commit THEN Commit(intention_id, d.reason) ELSE Abort(intention_id, d.reason)

\* A process_vote that asks the tracker also for a decided intention.
VoteSkippedLax(state) == FALSE

\* process_vote: a vote for an intention whose decision is made is dropped
VoteSkipped(state) == state.decision_made

\* A policy entry that reshapes the vote records of the intentions registered so far.
process_decider_policyReshape(d, decider_policy) ==
    [d EXCEPT !.current_decider_policy = decider_policy,
              !.intention_states =
                  [q \in DOMAIN d.intention_states |->
                      [d.intention_states[q] EXCEPT
                          !.vote_tracker = create_vote_tracker_for_decider_policy(decider_policy)]]]

\* Decider::process_decider_policy
process_decider_policy(d, decider_policy) ==
    [d EXCEPT !.current_decider_policy = decider_policy]

\* A process_vote that aborts an intention it does not know.
VoteForUnknownIntentionAborts(advanced, vote) ==
    [decider |-> advanced, verdict |-> Decision(FALSE, "unknown intention"),
     intention_id |-> vote.ref]

\* process_vote: the intention is not found, a warning is logged
VoteForUnknownIntention(advanced, vote) ==
    [decider |-> advanced, verdict |-> NoDecision, intention_id |-> vote.ref]

\* process_entry on one entry: the Decider after it and the verdict it proposes, if any
ProcessEntry(d, entry) ==
    LET pos == entry.log_position
        pl == entry.payload
        states == d.intention_states
        advanced == [d EXCEPT !.next_log_position = pos + 1] IN
    IF pl.kind = "Intention"
    THEN LET r == register(create_vote_tracker_for_decider_policy(d.current_decider_policy))
             st == [vote_tracker |-> r.tracker, decision_made |-> r.decision.some,
                    policy |-> d.current_decider_policy] IN
         [decider |-> [advanced EXCEPT !.intention_states =
                          [q \in DOMAIN states \cup {pos} |-> IF q = pos THEN st ELSE states[q]]],
          verdict |-> r.decision, intention_id |-> pos]
    ELSE IF pl.kind = "Vote"
    THEN IF pl.ref \in DOMAIN states
         THEN IF VoteSkipped(states[pl.ref])
              THEN [decider |-> advanced, verdict |-> NoDecision, intention_id |-> pl.ref]
              ELSE LET r == apply_vote(states[pl.ref].vote_tracker, pl) IN
                   [decider |-> [advanced EXCEPT
                                   !.intention_states[pl.ref].vote_tracker = r.tracker,
                                   !.intention_states[pl.ref].decision_made =
                                        (r.decision.some \/ states[pl.ref].decision_made)],
                    verdict |-> r.decision, intention_id |-> pl.ref]
         ELSE VoteForUnknownIntention(advanced, pl)
    ELSE IF pl.kind = "DeciderPolicy"
    THEN [decider |-> process_decider_policy(advanced, pl.val),
          verdict |-> NoDecision, intention_id |-> 0]
    ELSE [decider |-> advanced, verdict |-> NoDecision, intention_id |-> 0]

\* poll_and_decide: the next entry of the pass is processed, its verdict appended
DeciderProcess ==
    /\ decider.in_pass
    /\ LET r == ProcessEntry(decider, Head(decider.batch)) IN
        /\ decider' = [r.decider EXCEPT !.batch = Tail(decider.batch),
                                        !.in_pass = Tail(decider.batch) # <<>>]
        /\ buses' = IF r.verdict.some
                    THEN MemPropose(buses, BusD, DecisionPayload(r.intention_id, r.verdict)).buses
                    ELSE buses
    /\ UNCHANGED outsideDecider

VoteChoices == {<<"true", NoLlm>>, <<"false", Llm("m", "unsafe")>>, <<"none", NoLlm>>}

InitDecider ==
    /\ WoNew
    /\ LinUnused
    /\ SimUnused
    /\ SeqUnused /\ FaultUnused
    /\ buses = NoBuses
    /\ \E policy \in DeciderPolicies : decider = DeciderNew(policy)

NextDecider ==
    \/ ClientPropose(Intention(Body(1)))
    \/ \E id \in 0..MaxVoteId, c \in VoteChoices : ClientPropose(Vote(id, c[1], c[2]))
    \/ \E policy \in DeciderPolicies : ClientPropose(DeciderPolicy(policy))
    \/ DeciderPoll
    \/ DeciderProcess

SpecDecider == InitDecider /\ [][NextDecider]_vars

(***************************************************************************)
(* The counter workload: workers run increment/decrement through           *)
(* AgentBusCounter over the log, with the Decider under FirstBooleanWins,  *)
(* and a RandomVoter; TrackingCounter records results and timestamps;      *)
(* after a barrier each worker returns its history.  The clock has moved   *)
(* on at every reading: with equal readings verify_partial_order, whose    *)
(* comparison is strict, has fewer pairs to order.                         *)
(***************************************************************************)
NumWorkers == 2        \* workers of the workload
OpsPerWorker == 1      \* operations of each worker
ExtraEntries == 1      \* votes and verdicts appended for the noops of get_command_history

\* the voter and the Decider append while the log stays within this length: an
\* intention, a vote and a verdict per operation, the noops, and ExtraEntries
MaxLogLen == 3 * NumWorkers * OpsPerWorker + NumWorkers + ExtraEntries

Workers == 1..NumWorkers
\* max_poll_entries a worker is built with
WorkerPollSizes == {1, 1000}

\* AgentBusCounter::new with with_max_poll_entries, inside a CounterWorker
WorkerNew(max_poll_entries) ==
    [phase |-> "idle", ops_left |-> OpsPerWorker, op |-> "", my_id |-> -1, start_time |-> 0,
     next_log_position |-> 0, value |-> 0, command_history |-> <<>>,
     buffered_intentions |-> <<>>, max_poll_entries |-> max_poll_entries,
     returned_history |-> <<>>]

\* CounterOp::from_string(..).needs_commit(): inc and dec are buffered until committed
NeedsCommit(s) == s = "inc" \/ s = "dec"

\* SequentialCounter::apply_operation on a value
ApplyValue(value, operation) ==
    IF operation = "inc" THEN value + 1
    ELSE IF operation = "dec" THEN value - 1
    ELSE value

ExecutedCommand(intention_id, operation) == [intention_id |-> intention_id, operation |-> operation]

\* SequentialCounter::apply_operation on a worker's counter
apply_operation(w, intention_id, operation) ==
    [w EXCEPT !.value = ApplyValue(w.value, operation),
              !.command_history = Append(w.command_history,
                                         ExecutedCommand(intention_id, operation))]

Continue == [tag |-> "Continue", value |-> 0]
FoundMyOp(value) == [tag |-> "FoundMyOp", value |-> value]
Aborted == [tag |-> "Aborted", value |-> 0]

\* AgentBusCounter::process_entry_with_commits
process_entry_with_commits(w, entry, my_intention_id) ==
    LET pl == entry.payload
        buffered == w.buffered_intentions IN
    IF pl.kind = "Intention"
    THEN IF NeedsCommit(pl.text)
         THEN [worker |-> [w EXCEPT !.buffered_intentions =
                              [q \in DOMAIN buffered \cup {entry.log_position} |->
                                  IF q = entry.log_position THEN pl.text ELSE buffered[q]]],
               result |-> Continue]
         ELSE [worker |-> w, result |-> Continue]
    ELSE IF pl.kind = "Commit"
    THEN IF pl.ref \in DOMAIN buffered
         THEN LET w1 == apply_operation(
                            [w EXCEPT !.buffered_intentions =
                                [q \in DOMAIN buffered \ {pl.ref} |-> buffered[q]]],
                            pl.ref, buffered[pl.ref]) IN
              [worker |-> w1,
               result |-> IF pl.ref = my_intention_id THEN FoundMyOp(w1.value) ELSE Continue]
         ELSE [worker |-> w, result |-> Continue]
    ELSE IF pl.kind = "Abort"
    THEN [worker |-> [w EXCEPT !.buffered_intentions =
                         [q \in DOMAIN buffered \ {pl.ref} |-> buffered[q]]],
          result |-> IF pl.ref = my_intention_id THEN Aborted ELSE Continue]
    ELSE [worker |-> w, result |-> Continue]

RECURSIVE ProcessBatch(_, _, _, _)
\* the loop of poll_and_process over the polled entries: every entry is processed, the
\* last result other than Continue is kept
ProcessBatch(w, entries, my_intention_id, result) ==
    IF entries = <<>> THEN [worker |-> w, result |-> result]
    ELSE LET entry == Head(entries)
             r == process_entry_with_commits(
                      [w EXCEPT !.next_log_position = entry.log_position + 1],
                      entry, my_intention_id) IN
         ProcessBatch(r.worker, Tail(entries), my_intention_id,
                      IF r.result.tag = "Continue" THEN result ELSE r.result)

\* AgentBusCounter::poll_and_process
poll_and_process(w, bs) ==
    LET response == MemPoll(bs, PollRequest(BusD, w.next_log_position, w.max_poll_entries,
                                            NoFilter)) IN
    ProcessBatch(w, response.entries, w.my_id, Continue)

\* the worker after an operation returned: the next operation, or the barrier
AfterOp(w) ==
    [w EXCEPT !.ops_left = w.ops_left - 1,
              !.phase = IF w.ops_left - 1 = 0 THEN "barrier" ELSE "idle"]

\* TrackingCounter::increment / decrement: read the clock, then propose_intention,
\* which completes on the in-memory log without yielding
WorkerStart(i, op) ==
    /\ workers[i].phase = "idle" /\ workers[i].ops_left > 0
    /\ LET r == MemPropose(buses, BusD, Intention(op)) IN
       LET t == now + 1 IN
        /\ now' = t
        /\ buses' = r.buses
        /\ workers' = [workers EXCEPT ![i].phase = "waiting", ![i].op = op,
                                      ![i].start_time = t, ![i].my_id = r.log_position]
    /\ UNCHANGED <<decider, tracker, stop, voter, outsideLin>>

\* A noop that returns without catching up.
NoopReturnsEager(w) == TRUE

\* execute_op: a noop returns once the worker has processed past its own position
NoopReturns(w) == w.next_log_position > w.my_id

\* one round of the execute_op loop of an increment or decrement; on Ok
\* TrackingCounter::record stores the result and the timestamps
WorkerPoll(i) ==
    /\ workers[i].phase = "waiting" /\ workers[i].op # "noop"
    /\ LET r == poll_and_process(workers[i], buses) IN
       LET t == now + 1 IN
        IF r.result.tag = "FoundMyOp"
        THEN /\ now' = t
             /\ workers' = [workers EXCEPT ![i] = AfterOp(r.worker)]
             /\ tracker' =
                  [results |-> [q \in DOMAIN tracker.results \cup {r.worker.my_id} |->
                                   IF q = r.worker.my_id THEN r.result.value
                                   ELSE tracker.results[q]],
                   timestamps |-> Append(tracker.timestamps,
                                         [intention_id |-> r.worker.my_id,
                                          start_time |-> r.worker.start_time,
                                          end_time |-> t])]
        ELSE IF r.result.tag = "Aborted"
        THEN /\ now' = t
             /\ workers' = [workers EXCEPT ![i] = AfterOp(r.worker)]
             /\ tracker' = tracker
        ELSE /\ now' = now
             /\ workers' = [workers EXCEPT ![i] = r.worker]
             /\ tracker' = tracker
    /\ UNCHANGED <<buses, decider, stop, voter, outsideLin>>

\* the barrier opens once every worker has finished its workload; get_command_history
\* proposes its noop
WorkerPassBarrier(i) ==
    /\ workers[i].phase = "barrier"
    /\ \A j \in Workers : workers[j].ops_left = 0
    /\ LET r == MemPropose(buses, BusD, Intention("noop")) IN
        /\ buses' = r.buses
        /\ workers' = [workers EXCEPT ![i].phase = "waiting", ![i].op = "noop",
                                      ![i].my_id = r.log_position]
    /\ UNCHANGED <<decider, tracker, now, stop, voter, outsideLin>>

\* one round of the execute_op loop of the noop; when it returns the worker hands out
\* its command history and the last worker sets stop_components
WorkerNoopPoll(i) ==
    /\ workers[i].phase = "waiting" /\ workers[i].op = "noop"
    /\ IF NoopReturns(workers[i])
       THEN /\ workers' = [workers EXCEPT ![i].phase = "done",
                                          ![i].returned_history = workers[i].command_history]
            /\ stop' = (stop \/ i = NumWorkers)
       ELSE LET r == poll_and_process(workers[i], buses) IN
            IF r.result.tag = "Continue"
            THEN /\ workers' = [workers EXCEPT ![i] = r.worker]
                 /\ stop' = stop
            ELSE /\ workers' = [workers EXCEPT ![i] =
                                   [r.worker EXCEPT !.phase = "done",
                                                    !.returned_history = r.worker.command_history]]
                 /\ stop' = (stop \/ i = NumWorkers)
    /\ UNCHANGED <<buses, decider, tracker, now, voter, outsideLin>>

RECURSIVE ProcessEntries(_, _, _)
\* the loop of poll_and_decide over the polled entries, each verdict appended to the
\* in-memory log, whose calls complete without yielding
ProcessEntries(d, bs, entries) ==
    IF entries = <<>> THEN [decider |-> d, buses |-> bs]
    ELSE LET r == ProcessEntry(d, Head(entries)) IN
         ProcessEntries(r.decider,
                        IF r.verdict.some
                        THEN MemPropose(bs, BusD, DecisionPayload(r.intention_id, r.verdict)).buses
                        ELSE bs,
                        Tail(entries))

\* the decider task: one poll_and_decide pass between two sleeps, unless
\* stop_components is set
DeciderPass ==
    /\ ~stop
    /\ LET response == MemPoll(buses, PollRequest(BusD, decider.next_log_position, 64,
                                                  DeciderFilter))
           r == ProcessEntries(decider, buses, response.entries) IN
        /\ response.entries # <<>>
        /\ Len(r.buses[BusD]) <= MaxLogLen
        /\ decider' = r.decider
        /\ buses' = r.buses
    /\ UNCHANGED <<workers, tracker, now, stop, voter, outsideLin>>

RECURSIVE VoteOnEntries(_, _, _, _)
\* the loop of poll_and_vote_once: entry k of the pass gets the vote votes[k]
VoteOnEntries(v, bs, entries, votes) ==
    IF entries = <<>> THEN [voter |-> v, buses |-> bs]
    ELSE LET entry == Head(entries) IN
         VoteOnEntries([v EXCEPT !.next_log_position = entry.log_position + 1],
                       IF entry.payload.kind = "Intention"
                       THEN MemPropose(bs, BusD, Vote(entry.log_position, Head(votes), NoLlm)).buses
                       ELSE bs,
                       Tail(entries), Tail(votes))

\* the voter task: one poll_and_vote_once between two sleeps, unless stop_components
\* is set; each polled intention gets a random boolean vote
VoterPass ==
    /\ ~stop
    /\ LET response == MemPoll(buses, PollRequest(BusD, voter.next_log_position, 1000,
                                                  FilterOf({"Intention"}))) IN
       /\ response.entries # <<>>
       /\ \E votes \in [1..Len(response.entries) -> {"true", "false"}] :
          LET r == VoteOnEntries(voter, buses, response.entries, votes) IN
          /\ Len(r.buses[BusD]) <= MaxLogLen
          /\ voter' = r.voter
          /\ buses' = r.buses
    /\ UNCHANGED <<decider, workers, tracker, now, stop, outsideLin>>

InitLin ==
    /\ WoNew
    /\ buses = NoBuses
    /\ decider = DeciderNew("FirstBooleanWins")
    /\ \E m \in WorkerPollSizes : workers = [i \in Workers |-> WorkerNew(m)]
    /\ tracker = TrackerNew
    /\ now = 0
    /\ stop = FALSE
    /\ voter = VoterNew
    /\ SimUnused
    /\ SeqUnused /\ FaultUnused

NextLin ==
    \/ \E i \in Workers, op \in {"inc", "dec"} : WorkerStart(i, op)
    \/ \E i \in Workers : WorkerPoll(i)
    \/ \E i \in Workers : WorkerPassBarrier(i)
    \/ \E i \in Workers : WorkerNoopPoll(i)
    \/ DeciderPass
    \/ VoterPass

SpecLin == InitLin /\ [][NextLin]_vars

RECURSIVE ReplayValue(_, _)
\* the value the replay closure of run_multi_worker_counter_test returns for command k
\* of the history: SequentialCounter::apply_operation on the commands up to k, from 0
ReplayValue(command_history, k) ==
    IF k = 0 THEN 0
    ELSE ApplyValue(ReplayValue(command_history, k - 1), command_history[k].operation)

\* LinearizabilityTracker::verify_consistent_histories
verify_consistent_histories(worker_histories, command_history) ==
    \A idx \in DOMAIN worker_histories :
        /\ Len(worker_histories[idx]) = Len(command_history)
        /\ \A cmd_idx \in DOMAIN worker_histories[idx] :
               worker_histories[idx][cmd_idx] = command_history[cmd_idx]

\* LinearizabilityTracker::verify_result_count
verify_result_count(command_history, recorded_results) ==
    Len(command_history) = Cardinality(DOMAIN recorded_results)

\* LinearizabilityTracker::verify_replay_values
verify_replay_values(command_history, recorded_results) ==
    \A k \in DOMAIN command_history :
        command_history[k].intention_id \in DOMAIN recorded_results
            => recorded_results[command_history[k].intention_id]
                   = ReplayValue(command_history, k)

\* position_map of verify_partial_order: the ids of the history
InHistory(command_history, intention_id) ==
    \E k \in DOMAIN command_history : command_history[k].intention_id = intention_id

\* position_map of verify_partial_order: the position an id is collected with
PositionIn(command_history, intention_id) ==
    CHOOSE k \in DOMAIN command_history :
        /\ command_history[k].intention_id = intention_id
        /\ \A m \in DOMAIN command_history :
               command_history[m].intention_id = intention_id => m <= k

\* one direction of the pair test of verify_partial_order: ts_a ended before ts_b
\* started, so both are in the history and ts_a comes first
OrderedPair(command_history, ts_a, ts_b) ==
    ts_a.end_time < ts_b.start_time
        => /\ InHistory(command_history, ts_a.intention_id)
           /\ InHistory(command_history, ts_b.intention_id)
           /\ PositionIn(command_history, ts_a.intention_id)
                  < PositionIn(command_history, ts_b.intention_id)

\* LinearizabilityTracker::verify_partial_order
verify_partial_order(command_history, timestamps) ==
    \A i \in DOMAIN timestamps : \A j \in DOMAIN timestamps :
        i < j => /\ OrderedPair(command_history, timestamps[i], timestamps[j])
                 /\ OrderedPair(command_history, timestamps[j], timestamps[i])

\* LinearizabilityTracker::verify returns Ok
verify(t, worker_histories) ==
    LET command_history == worker_histories[1] IN
    /\ verify_consistent_histories(worker_histories, command_history)
    /\ verify_result_count(command_history, t.results)
    /\ verify_replay_values(command_history, t.results)
    /\ verify_partial_order(command_history, t.timestamps)

\* the histories the worker tasks hand to run_multi_worker_counter_test
WorkerHistories == [i \in Workers |-> workers[i].returned_history]
AllWorkersDone == \A i \in Workers : workers[i].phase = "done"

(***************************************************************************)
(* The deterministic simulator.  Two Simulators are built from the same    *)
(* seed and jitter distribution and are given the same tasks; each runs    *)
(* DeterministicExecutor::run on its own.  LogicalClock::new reads the     *)
(* wall clock, so the two clocks start at instants of their own.  Times    *)
(* are in units of 100 microseconds.                                       *)
(***************************************************************************)
MaxSeed == 3           \* seeds 0..MaxSeed
MaxOrigin == 1         \* Instant::now() at LogicalClock::new is in 0..MaxOrigin
AdvanceBy == 5         \* what a task adds when it advances the clock itself
MAX_ITERATIONS == 12   \* run's cap of 100_000 iterations, scaled to the runs of the model

Runs == {1, 2}
Seeds == 0..MaxSeed
Origins == 0..MaxOrigin

\* StdRng stands as a linear congruential generator over this many states
RngModulus == 32
\* StdRng::seed_from_u64
seed_from_u64(seed) == (7 * seed + 1) % RngModulus
\* the generator's state after one draw; the draw's value is the new state
NextRng(x) == (5 * x + 3) % RngModulus
\* Rng::gen_range(low..high) of a drawn value
gen_range(x, low, high) == low + (x % (high - low))
\* Uniform::sample of a drawn value
sample(distribution, x) == gen_range(x, distribution.low, distribution.high)

\* Uniform::new(low, high)
Uniform(low, high) == [low |-> low, high |-> high]
\* DeterministicExecutor::new's Uniform(100, 501) microseconds, and the Uniform(0, 1)
\* of the warning on jitter_distribution
Jitters == {Uniform(1, 6), Uniform(0, 1)}

\* what a task's future does between two awaits
Sleep(duration) == [op |-> "sleep", arg |-> duration]
RandomSleep == [op |-> "random_sleep", arg |-> 0]
Spawn(prog) == [op |-> "spawn", arg |-> prog]
\* receiver.await on the oneshot channels named: all of them at once when several
Recv(channels) == [op |-> "recv", arg |-> channels]
\* sender.send(..) on a oneshot channel
Send(channel) == [op |-> "send", arg |-> channel]
\* cx.waker().wake_by_ref() followed by Poll::Pending: the task gives way once
Yield == [op |-> "yield", arg |-> 0]
\* loop { .. }
Loop == [op |-> "loop", arg |-> 0]
\* clock.advance_to(clock.current_time() + by) on the Simulator's public clock
Advance(by) == [op |-> "advance", arg |-> by]

\* the futures of the task graphs
Programs ==
    << <<Sleep(20)>>,
       <<RandomSleep, Spawn(3), RandomSleep>>,
       <<>>,
       <<Sleep(2), Sleep(30)>>,
       <<Recv({1}), Send(2)>>,
       <<Recv({2})>>,
       <<Sleep(3), Send(1)>>,
       <<Recv({1})>>,
       <<Yield, Loop>>,
       <<Recv({1, 2, 3})>>,
       <<Send(1), Send(2)>>,
       <<Send(3)>>,
       <<Advance(AdvanceBy)>>,
       <<Yield>> >>

\* the tasks spawned before run, in spawn order
TaskGraphs == {<<1, 1>>, <<4, 1>>, <<2, 4>>, <<3, 3, 3>>}

\* Task of spawn_named: no target time
UserTask(sequence, prog) ==
    [sequence |-> sequence, target_time |-> -1, prog |-> prog, pc |-> 1,
     awaiting |-> {}, tx |-> 0]

\* Task of spawn_after for Simulator::sleep: its future sends on the oneshot channel
\* the sleeper's future awaits
SleepTask(sequence, target_time, tx) ==
    [sequence |-> sequence, target_time |-> target_time, prog |-> 0, pc |-> 1,
     awaiting |-> {}, tx |-> tx]

\* oneshot::channel(): nothing sent, no waker of a receiving task stored.  A channel
\* made by Simulator::sleep remembers the clock's reading at the request and the
\* duration (-1 otherwise), and every channel the reading at which its receiver's
\* await completed (-1 before that).
Oneshot(requested, duration) ==
    [sent |-> FALSE, rx_task |-> -1, requested |-> requested, duration |-> duration,
     resumed |-> -1]

\* Simulator::with_jitter
SimulatorNew(seed, jitter_distribution, origin) ==
    [phase |-> "spawning", events |-> <<>>, sleeps |-> {}, blocked |-> {}, wakes |-> <<>>,
     jitter_distribution |-> jitter_distribution, next_sequence |-> 0,
     rng |-> seed_from_u64(seed), child_rng |-> 0, draws |-> 0,
     origin |-> origin, current_time |-> origin, channels |-> <<>>,
     iterations |-> 0, final_blocked_tasks |-> 0, trace |-> <<>>]

\* DeterministicExecutor::spawn_named
spawn_named(s, prog) ==
    [s EXCEPT !.events = Append(@, UserTask(s.next_sequence, prog)),
              !.next_sequence = @ + 1]

\* A sleep whose task is due at once.
spawn_afterNow(s, duration, tx) ==
    [s EXCEPT !.sleeps = @ \cup {SleepTask(s.next_sequence, s.current_time, tx)},
              !.next_sequence = @ + 1]

\* DeterministicExecutor::spawn_after, called by Simulator::sleep
spawn_after(s, duration, tx) ==
    [s EXCEPT !.sleeps = @ \cup {SleepTask(s.next_sequence, s.current_time + duration, tx)},
              !.next_sequence = @ + 1]

\* Simulator::sleep up to the future it returns: a oneshot channel is made and the
\* task that sends on it is spawned for now + duration; the future awaits channel
\* Len(channels) of the result
SimSleep(s, duration) ==
    spawn_after([s EXCEPT !.channels = Append(@, Oneshot(s.current_time, duration))],
                duration, Len(s.channels) + 1)

RECURSIVE SpawnGraph(_, _)
\* the spawns of a task graph
SpawnGraph(s, graph) ==
    IF graph = <<>> THEN s
    ELSE SpawnGraph(spawn_named(s, Head(graph)), Tail(graph))

\* SimulatorWaker::wake_by_ref: the task's sequence is pushed to the wake queue
wake_by_ref(s, sequence) == [s EXCEPT !.wakes = Append(@, sequence)]

\* oneshot Sender::send: the value is stored and the receiving task's waker, if one is
\* stored, is taken and woken
OneshotSend(s, c) ==
    LET s1 == [s EXCEPT !.channels[c].sent = TRUE, !.channels[c].rx_task = -1] IN
    IF ~s.channels[c].sent /\ s.channels[c].rx_task # -1
    THEN wake_by_ref(s1, s.channels[c].rx_task)
    ELSE s1

\* oneshot Receiver::poll of the channels a task awaits: a channel without a value
\* stores the polling task's waker
OneshotRegister(s, cs, sequence) ==
    [s EXCEPT !.channels = [c \in DOMAIN @ |->
        IF c \in cs /\ ~@[c].sent THEN [@[c] EXCEPT !.rx_task = sequence] ELSE @[c]]]

\* the awaits of the channels complete at the clock's present reading
OneshotResume(s, cs) ==
    [s EXCEPT !.channels = [c \in DOMAIN @ |->
        IF c \in cs THEN [@[c] EXCEPT !.resumed = s.current_time] ELSE @[c]]]

\* A clock that is set to whatever target it is given.
advance_toAlways(s, target_time) == [s EXCEPT !.current_time = target_time]

\* LogicalClock::advance_to
advance_to(s, target_time) ==
    IF target_time > s.current_time THEN [s EXCEPT !.current_time = target_time] ELSE s

RECURSIVE PollUser(_, _)
\* one poll of a spawned task's future: it runs to its next await that is pending, or
\* to its end
PollUser(s, task) ==
    IF task.awaiting # {}
    THEN IF \A c \in task.awaiting : s.channels[c].sent
         THEN PollUser(OneshotResume(s, task.awaiting),
                       [task EXCEPT !.awaiting = {}, !.pc = @ + 1])
         ELSE [exec |-> OneshotRegister(s, task.awaiting, task.sequence),
               pending |-> TRUE, task |-> task]
    ELSE IF task.pc > Len(Programs[task.prog])
    THEN [exec |-> s, pending |-> FALSE, task |-> task]
    ELSE LET o == Programs[task.prog][task.pc] IN
         CASE o.op = "spawn" ->
                PollUser(spawn_named(s, o.arg), [task EXCEPT !.pc = @ + 1])
           [] o.op = "sleep" ->
                PollUser(SimSleep(s, o.arg),
                         [task EXCEPT !.awaiting = {Len(s.channels) + 1}])
           [] o.op = "random_sleep" ->
                LET x == NextRng(s.rng) IN
                PollUser(SimSleep([s EXCEPT !.rng = x, !.draws = @ + 1],
                                  10 * gen_range(x, 1, 5)),
                         [task EXCEPT !.awaiting = {Len(s.channels) + 1}])
           [] o.op = "recv" ->
                PollUser(s, [task EXCEPT !.awaiting = o.arg])
           [] o.op = "send" ->
                PollUser(OneshotSend(s, o.arg), [task EXCEPT !.pc = @ + 1])
           [] o.op = "advance" ->
                PollUser(advance_to(s, s.current_time + o.arg), [task EXCEPT !.pc = @ + 1])
           [] o.op = "loop" ->
                PollUser(s, [task EXCEPT !.pc = 1])
           [] OTHER ->
                [exec |-> wake_by_ref(s, task.sequence), pending |-> TRUE,
                 task |-> [task EXCEPT !.pc = @ + 1]]

\* task.future.poll: the future of a sleep's task sends on its channel and is done
Poll(s, task) ==
    IF task.prog = 0
    THEN [exec |-> OneshotSend(s, task.tx), pending |-> FALSE, task |-> task]
    ELSE PollUser(s, task)

\* A wake queue of which only the head is honoured.
DrainWakesFirst(s) ==
    IF s.wakes = <<>> THEN s
    ELSE LET hit == {t \in s.blocked : t.sequence = Head(s.wakes)} IN
         [s EXCEPT !.wakes = <<>>,
                   !.blocked = @ \ hit,
                   !.events = IF hit = {} THEN @
                              ELSE Append(@, CHOOSE t \in hit : TRUE)]

RECURSIVE DrainWakes(_)
\* run: the wake queue is drained, woken tasks move from blocked to events
DrainWakes(s) ==
    IF s.wakes = <<>> THEN s
    ELSE LET hit == {t \in s.blocked : t.sequence = Head(s.wakes)} IN
         DrainWakes([s EXCEPT !.wakes = Tail(@),
                              !.blocked = @ \ hit,
                              !.events = IF hit = {} THEN @
                                         ELSE Append(@, CHOOSE t \in hit : TRUE)])

\* Vec::swap_remove at a 0-based index
swap_remove(events, index) ==
    [k \in 1..(Len(events) - 1) |-> IF k = index + 1 THEN events[Len(events)] ELSE events[k]]

\* BinaryHeap<Reverse<Task>>::peek under Task::cmp: least target_time, then least sequence
PeekSleep(s) ==
    CHOOSE t \in s.sleeps : \A u \in s.sleeps :
        \/ t.target_time < u.target_time
        \/ t.target_time = u.target_time /\ t.sequence <= u.sequence

\* run: the clock advances to the target time, the task is polled, a pending task is
\* blocked; the history records the poll, the elapsed logical time and the draws so far
RunTask(s, task, target_time) ==
    LET r == Poll(advance_to(s, target_time), task)
        s2 == IF r.pending THEN [r.exec EXCEPT !.blocked = @ \cup {r.task}] ELSE r.exec IN
    [s2 EXCEPT !.iterations = @ + 1,
               !.trace = Append(@, [sequence |-> task.sequence,
                                    elapsed |-> s2.current_time - s2.origin,
                                    draws |-> s2.draws,
                                    child_rng |-> s2.child_rng,
                                    rng |-> s2.rng])]

\* run: the sleep that is due first is popped and run
RunSleep(s) ==
    LET task == PeekSleep(s) IN
    RunTask([s EXCEPT !.sleeps = @ \ {task}], task, task.target_time)

\* An event index taken from the generator and the clock's instant.
EventIndexByInstant(s, n) == (s.child_rng + s.current_time) % n

\* run: rng.gen_range(0..events.len()) of the value just drawn
EventIndex(s, n) == gen_range(s.child_rng, 0, n)

\* run: the event at the index is removed and run at the event time
RunEventAt(s, event_time, event_index) ==
    RunTask([s EXCEPT !.events = swap_remove(@, event_index)],
            s.events[event_index + 1], event_time)

\* run: an event chosen by the generator is removed and run at the event time
RunEvent(s, event_time) ==
    LET s1 == [s EXCEPT !.child_rng = NextRng(@), !.draws = @ + 1] IN
    RunEventAt(s1, event_time, EventIndex(s1, Len(s1.events)))

\* run: (None, None) => break, with the RunStats
RunBreak(s) ==
    [s EXCEPT !.phase = "finished", !.final_blocked_tasks = Cardinality(s.blocked)]

\* run: the panic at the iteration cap
RunPanic(s) == [s EXCEPT !.phase = "panicked"]

\* A loop that ends as soon as no event is ready.
NothingToRunReady(s) == s.events = <<>>

\* run: no event time and no sleep time
NothingToRun(s) == s.events = <<>> /\ s.sleeps = {}

\* A selection in which a ready event always goes first.
SleepFirstNever(s, event_time) == FALSE

\* run: a sleep exists and sleep_time < event_time
SleepFirst(s, event_time) == s.sleeps # {} /\ PeekSleep(s).target_time < event_time

\* one iteration of the loop of DeterministicExecutor::run
Iterate(s0) ==
    IF s0.iterations >= MAX_ITERATIONS THEN RunPanic(s0)
    ELSE
    LET s == DrainWakes(s0) IN
    IF NothingToRun(s) THEN RunBreak(s)
    ELSE IF s.events = <<>> THEN RunSleep(s)
    ELSE LET x == NextRng(s.child_rng)
             event_time == s.current_time + sample(s.jitter_distribution, x)
             s1 == [s EXCEPT !.child_rng = x, !.draws = @ + 1] IN
         IF SleepFirst(s1, event_time)
         THEN RunSleep(s1)
         ELSE RunEvent(s1, event_time)

\* one iteration of the loop for a jitter and an event index as the generator may
\* give them
IterateDrawn(s0, jitter_us, event_index) ==
    IF s0.iterations >= MAX_ITERATIONS THEN RunPanic(s0)
    ELSE
    LET s == DrainWakes(s0) IN
    IF NothingToRun(s) THEN RunBreak(s)
    ELSE IF s.events = <<>> THEN RunSleep(s)
    ELSE LET event_time == s.current_time + jitter_us IN
         IF SleepFirst(s, event_time)
         THEN RunSleep(s)
         ELSE RunEventAt(s, event_time, event_index % Len(s.events))

\* Simulator::run: the executor's generator is seeded from the Simulator's
SimRun(r) ==
    /\ sim[r].phase = "spawning"
    /\ LET x == NextRng(sim[r].rng) IN
       sim' = [sim EXCEPT ![r].rng = x, ![r].draws = @ + 1,
                          ![r].child_rng = seed_from_u64(x), ![r].phase = "running"]
    /\ UNCHANGED outsideSim

\* DeterministicExecutor::run, one iteration
SimIterate(r) ==
    /\ sim[r].phase = "running"
    /\ sim' = [sim EXCEPT ![r] = Iterate(sim[r])]
    /\ UNCHANGED outsideSim

InitSim ==
    /\ WoNew /\ DeciderUnused /\ LinUnused /\ SeqUnused /\ FaultUnused
    /\ \E seed \in Seeds, jitter_distribution \in Jitters, graph \in TaskGraphs :
       \E origin \in [Runs -> Origins] :
           sim = [r \in Runs |->
                    SpawnGraph(SimulatorNew(seed, jitter_distribution, origin[r]), graph)]

NextSim ==
    \/ \E r \in Runs : SimRun(r)
    \/ \E r \in Runs : SimIterate(r)

SpecSim == InitSim /\ [][NextSim]_vars

\* the elapsed logical time of a run
Elapsed(s) == s.current_time - s.origin
\* RunStats of a finished run
RunStats(s) == [iterations |-> s.iterations, final_blocked_tasks |-> s.final_blocked_tasks]

(***************************************************************************)
(* A sequential client.  It issues propose and poll calls one after        *)
(* another through one WriteOnceAgentBus handle over an in-memory          *)
(* write-once space, and issues the same calls to an InMemoryAgentBusState *)
(* that starts empty.  Over the in-memory space the space's calls complete *)
(* without yielding, so each call runs to its end in one step.  A restart  *)
(* replaces the handle by a new one over the same space.                   *)
(***************************************************************************)
MaxSeqProposals == 2   \* single propose calls that are given a payload and a valid id

\* the client's loop that fills a bus past the poll cap
BurstLen == MAX_POLL_ENTRIES + 1

\* the longest valid bus id, one that is too long, and the empty one
BusMaxHead == <<"Z", "_", ".", "/", "9", "-">>
BusMax == [i \in 1..MAX_BUS_ID_LEN |-> IF i <= Len(BusMaxHead) THEN BusMaxHead[i] ELSE "a"]
LongBus == [i \in 1..(MAX_BUS_ID_LEN + 1) |-> "a"]
EmptyBus == <<>>
SeqBusIds == {BusA, BusMax, BadBus, EmptyBus, LongBus}
SeqValidBusIds == {b \in SeqBusIds : validate_bus_id(b)}
SeqPositions == 0..(BurstLen + MaxSeqProposals + 2)
SeqHandle == 1

SeqPayloads == {Intention("x"), Vote(0, "true", NoLlm), EmptyPayload}
SeqFilters == {NoFilter, FilterOf({}), FilterOf({"Intention"}), FilterOf({"Vote", "Commit"})}
\* the propose calls the client makes: every payload on one bus, and one payload on
\* the other bus ids
SeqProposeInputs ==
    {<<BusA, pl>> : pl \in SeqPayloads \cup {NoPayload}}
        \cup {<<b, Intention("x")>> : b \in SeqBusIds \ {BusA}}
\* the poll calls the client makes
SeqPollRequests ==
    {PollRequest(BusA, start, max, f) :
        start \in {-1, 0, 1}, max \in {0, 1, 1000}, f \in SeqFilters}
        \cup {PollRequest(BusA, 0, -1, NoFilter)}
        \cup {PollRequest(b, 0, max, NoFilter) : b \in {BusMax, BadBus}, max \in {0, 1000}}

RECURSIVE WriteLoop(_, _, _, _)
\* propose: the write loop, run to its end over the in-memory space
WriteLoop(sp, bus_id, position, serialized) ==
    LET w == StateWrite(sp, bus_id, position, serialized) IN
    IF ProposeOutcome(w.result) = "ok"
    THEN [spaces |-> w.spaces, ok |-> TRUE, position |-> position]
    ELSE IF ProposeOutcome(w.result) = "retry"
    THEN WriteLoop(w.spaces, bus_id, NextAfterConflict(position), serialized)
    ELSE [spaces |-> w.spaces, ok |-> FALSE, position |-> position]

\* WriteOnceAgentBus::propose
WoPropose(sp, np, h, bus_id, pl) ==
    IF ~validate_bus_id(bus_id)
    THEN [spaces |-> sp, next_positions |-> np, ok |-> FALSE, log_position |-> -1]
    ELSE IF pl = NoPayload
    THEN [spaces |-> sp, next_positions |-> np, ok |-> FALSE, log_position |-> -1]
    ELSE LET r == WriteLoop(sp, bus_id, get_next_position(np, h, bus_id),
                            serialize_payload(pl)) IN
         IF r.ok
         THEN [spaces |-> r.spaces,
               next_positions |-> set_next_position(np, h, bus_id, r.position + 1),
               ok |-> TRUE, log_position |-> r.position]
         ELSE [spaces |-> r.spaces, next_positions |-> np, ok |-> FALSE, log_position |-> -1]

RECURSIVE ScanTail(_, _, _)
\* poll: the scan from the cached position to the first empty cell
ScanTail(sp, bus_id, end_position) ==
    IF StateRead(sp, bus_id, end_position).some
    THEN ScanTail(sp, bus_id, end_position + 1)
    ELSE end_position

RECURSIVE WalkFromStopAtCap(_, _, _, _, _, _, _)
\* A walk that stops as soon as it holds max_entries entries.
WalkFromStopAtCap(sp, bus_id, pos, end_position, max_entries, filter, entries) ==
    IF ~(pos < end_position) THEN [entries |-> entries, complete |-> TRUE]
    ELSE IF Len(entries) >= max_entries THEN [entries |-> entries, complete |-> FALSE]
    ELSE LET v == StateRead(sp, bus_id, pos)
             pl == deserialize_payload(v.bytes) IN
         IF ~v.some \/ pl = DecodeError \/ ~payload_matches_filter(pl, filter)
         THEN WalkFromStopAtCap(sp, bus_id, pos + 1, end_position, max_entries, filter, entries)
         ELSE WalkFromStopAtCap(sp, bus_id, pos + 1, end_position, max_entries, filter,
                                Append(entries, [log_position |-> pos, payload |-> pl]))

RECURSIVE WalkFromRenumbered(_, _, _, _, _, _, _)
\* A walk that numbers the entries as it collects them.
WalkFromRenumbered(sp, bus_id, pos, end_position, max_entries, filter, entries) ==
    IF ~(pos < end_position) THEN [entries |-> entries, complete |-> TRUE]
    ELSE LET v == StateRead(sp, bus_id, pos)
             pl == deserialize_payload(v.bytes) IN
         IF ~v.some \/ pl = DecodeError \/ ~payload_matches_filter(pl, filter)
         THEN WalkFromRenumbered(sp, bus_id, pos + 1, end_position, max_entries, filter, entries)
         ELSE IF Len(entries) >= max_entries
         THEN [entries |-> entries, complete |-> FALSE]
         ELSE WalkFromRenumbered(sp, bus_id, pos + 1, end_position, max_entries, filter,
                                 Append(entries, [log_position |-> Len(entries), payload |-> pl]))

RECURSIVE WalkFrom(_, _, _, _, _, _, _)
\* poll: the walk from pos to end_position: decode, filter, cap, collect
WalkFrom(sp, bus_id, pos, end_position, max_entries, filter, entries) ==
    IF ~(pos < end_position) THEN [entries |-> entries, complete |-> TRUE]
    ELSE LET v == StateRead(sp, bus_id, pos)
             pl == deserialize_payload(v.bytes) IN
         IF ~v.some \/ pl = DecodeError \/ ~payload_matches_filter(pl, filter)
         THEN WalkFrom(sp, bus_id, pos + 1, end_position, max_entries, filter, entries)
         ELSE IF Len(entries) >= max_entries
         THEN [entries |-> entries, complete |-> FALSE]
         ELSE WalkFrom(sp, bus_id, pos + 1, end_position, max_entries, filter,
                       Append(entries, [log_position |-> pos, payload |-> pl]))

\* WriteOnceAgentBus::poll
WoPoll(sp, np, h, rq) ==
    LET max_entries == PollMaxEntries(rq.max_entries)
        start_position == Max(rq.start_log_position, 0) IN
    IF rq.filter.some /\ rq.filter.types = {}
    THEN [next_positions |-> np, entries |-> <<>>, complete |-> TRUE]
    ELSE LET end_position == ScanTail(sp, rq.bus_id, get_next_position(np, h, rq.bus_id))
             np1 == set_next_position(np, h, rq.bus_id, end_position) IN
         IF end_position = 0
         THEN [next_positions |-> np1, entries |-> <<>>, complete |-> TRUE]
         ELSE LET w == WalkFrom(sp, rq.bus_id, start_position, end_position, max_entries,
                                rq.filter, <<>>) IN
              [next_positions |-> np1, entries |-> w.entries, complete |-> w.complete]

\* what a call returned: Ok or an error, and the response's fields
CallResult(ok, log_position, entries, complete) ==
    [ok |-> ok, log_position |-> log_position, entries |-> entries, complete |-> complete]

\* the occupied cells of a bus in the space
SeqTail(sp, bus_id) == Cardinality({a \in SeqPositions : Occupied(sp, bus_id, a)})

NoPrev == [fresh |-> FALSE, bus_id |-> <<>>, tail_before |-> 0, log_position |-> -1,
           payload |-> NoPayload]
\* the call before a poll, when it was a successful propose of a handle whose cached
\* position for the bus was 0
PrevOf(c) ==
    IF c # <<>> /\ c.op = "propose" /\ c.wo.ok /\ c.cache_before = 0
    THEN [fresh |-> TRUE, bus_id |-> c.bus_id, tail_before |-> c.tail_before,
          log_position |-> c.wo.log_position, payload |-> c.payload]
    ELSE NoPrev

\* a call on bus_id has left what the two logs and the handle hold for every other
\* bus as it was
OthersKept(bus_id, sp, np, bs, sp1, np1, bs1) ==
    /\ DOMAIN sp1 = DOMAIN sp
    /\ DOMAIN bs1 \ {bus_id} = DOMAIN bs \ {bus_id}
    /\ \A b \in DOMAIN sp \ {bus_id} : sp1[b] = sp[b]
    /\ \A b \in DOMAIN bs \ {bus_id} : bs1[b] = bs[b]
    /\ \A b \in SeqBusIds \ {bus_id} :
          get_next_position(np1, SeqHandle, b) = get_next_position(np, SeqHandle, b)

\* one propose call on both logs
ProposeBoth(st, bus_id, pl) ==
    LET wo == WoPropose(st.spaces, st.next_positions, SeqHandle, bus_id, pl)
        mem == MemPropose(st.buses, bus_id, pl) IN
    [spaces |-> wo.spaces, next_positions |-> wo.next_positions, buses |-> mem.buses,
     returned |-> IF wo.ok \/ mem.ok
                  THEN Append(st.returned, [bus_id |-> bus_id, payload |-> pl,
                                            wo |-> wo.log_position, mem |-> mem.log_position])
                  ELSE st.returned,
     last_call |-> [op |-> "propose", bus_id |-> bus_id, payload |-> pl,
                    request |-> PollRequest(bus_id, 0, 0, NoFilter),
                    wo |-> CallResult(wo.ok, wo.log_position, <<>>, TRUE),
                    mem |-> CallResult(mem.ok, mem.log_position, <<>>, TRUE),
                    cache_before |-> get_next_position(st.next_positions, SeqHandle, bus_id),
                    tail_before |-> SeqTail(st.spaces, bus_id),
                    changed |-> wo.spaces # st.spaces \/ mem.buses # st.buses
                                \/ wo.next_positions # st.next_positions,
                    others_kept |-> OthersKept(bus_id, st.spaces, st.next_positions, st.buses,
                                               wo.spaces, wo.next_positions, mem.buses),
                    kept |-> \A a \in SeqPositions :
                                Occupied(st.spaces, bus_id, a)
                                    => StateRead(wo.spaces, bus_id, a) = StateRead(st.spaces, bus_id, a),
                    prev |-> NoPrev]]

SeqState ==
    [spaces |-> spaces, next_positions |-> next_positions, buses |-> buses,
     returned |-> returned, last_call |-> last_call]

SeqSet(st) ==
    /\ spaces' = st.spaces
    /\ next_positions' = st.next_positions
    /\ buses' = st.buses
    /\ returned' = st.returned
    /\ last_call' = st.last_call

\* the variables a sequential client leaves alone
outsideSeq == <<chan, backendAlive, reply, call, okCount, firstWritten, decider, linVars, sim,
               fault>>

\* the payload of the client's loop that fills a bus past the poll cap
FillPayload == Intention("fill")
\* the client is the one that runs the loop, and the loop has calls left to make
InBurst == returned # <<>> /\ returned[1].payload = FillPayload
Filling == InBurst /\ Len(returned) < BurstLen

\* a propose call
SeqPropose(bus_id, pl) ==
    /\ ~InBurst
    /\ (validate_bus_id(bus_id) /\ pl # NoPayload) => nProposed < MaxSeqProposals
    /\ SeqSet(ProposeBoth(SeqState, bus_id, pl))
    /\ nProposed' = IF validate_bus_id(bus_id) /\ pl # NoPayload THEN nProposed + 1
                    ELSE nProposed
    /\ UNCHANGED outsideSeq

\* one propose call of the loop that fills an empty bus with BurstLen entries
SeqBurst(bus_id) ==
    /\ returned = <<>> \/ Filling
    /\ SeqSet(ProposeBoth(SeqState, bus_id, FillPayload))
    /\ UNCHANGED <<nProposed, outsideSeq>>

\* a poll call
SeqPoll(rq) ==
    LET wo == WoPoll(spaces, next_positions, SeqHandle, rq)
        mem == MemPoll(buses, rq) IN
    /\ ~Filling
    /\ next_positions' = wo.next_positions
    /\ last_call' = [op |-> "poll", bus_id |-> rq.bus_id, payload |-> NoPayload,
                     request |-> rq,
                     wo |-> CallResult(TRUE, -1, wo.entries, wo.complete),
                     mem |-> CallResult(TRUE, -1, mem.entries, mem.complete),
                     cache_before |-> get_next_position(next_positions, SeqHandle, rq.bus_id),
                     tail_before |-> SeqTail(spaces, rq.bus_id),
                     changed |-> FALSE,
                     kept |-> TRUE,
                     others_kept |-> OthersKept(rq.bus_id, spaces, next_positions, buses,
                                                spaces, wo.next_positions, buses),
                     prev |-> PrevOf(last_call)]
    /\ UNCHANGED <<spaces, buses, returned, nProposed, outsideSeq>>

\* WriteOnceAgentBus::new over the same space: the client goes on with a new handle
SeqRestart ==
    /\ \E b \in SeqBusIds : get_next_position(next_positions, SeqHandle, b) # 0
    /\ next_positions' = [h \in {SeqHandle} |-> [b \in SeqBusIds |-> 0]]
    /\ UNCHANGED <<spaces, buses, returned, last_call, nProposed, outsideSeq>>

InitSeq ==
    /\ spaces = [b \in SeqValidBusIds |-> [a \in SeqPositions |-> None]]
    /\ next_positions = [h \in {SeqHandle} |-> [b \in SeqBusIds |-> 0]]
    /\ buses = NoBuses
    /\ returned = <<>>
    /\ last_call = <<>>
    /\ nProposed = 0
    /\ chan = <<>> /\ backendAlive = TRUE /\ reply = <<>> /\ call = <<>>
    /\ okCount = <<>> /\ firstWritten = <<>>
    /\ decider = DeciderIdle
    /\ LinUnused /\ SimUnused /\ FaultUnused

NextSeq ==
    \/ \E c \in SeqProposeInputs : SeqPropose(c[1], c[2])
    \/ SeqBurst(BusA)
    \/ \E rq \in SeqPollRequests : SeqPoll(rq)
    \/ SeqRestart

SpecSeq == InitSeq /\ [][NextSeq]_vars

\* the entries of a bus as its cells hold them, in position order
OccupiedCount(b) == Cardinality({a \in Positions : Occupied(spaces, b, a)})
LogEntries(b) ==
    [i \in 1..OccupiedCount(b) |->
        [log_position |-> i - 1, payload |-> deserialize_payload(StateRead(spaces, b, i - 1).bytes)]]
OkProposals == {i \in 1..Len(returned) : returned[i].state = "ok"}
\* a finished poll of the whole bus that ran while no propose was in flight and the
\* space was serving
QuietFullPoll(p) ==
    /\ call[p].op = "done" /\ call[p].phase = "poll"
    /\ call[p].bus = BusA /\ call[p].start = 0 /\ ~call[p].filter.some
    /\ call[p].max_entries >= MaxProposals
    /\ call[p].quiet /\ backendAlive

C3_OccupiedPrefix ==
    \A b \in ValidBusIds, a \in Positions :
        (a + 1 \in Positions /\ Occupied(spaces, b, a + 1)) => Occupied(spaces, b, a)

\* two cells claimed, one of them after a conflict, and a propose failed on the backend
C3_Witness ==
    /\ Occupied(spaces, BusA, 1)
    /\ \E i \in OkProposals : returned[i].pos > returned[i].first
    /\ \E i \in 1..Len(returned) : returned[i].state = "err"

(***************************************************************************)
(* C5: real-time order on one handle.  A propose that was invoked after    *)
(* another propose on the same handle (clones share the handle) had        *)
(* returned successfully gets a larger position, whatever the other        *)
(* handles and clones do meanwhile.                                        *)
(***************************************************************************)
C5_RealTimeOrder ==
    \A i \in OkProposals : returned[i].pos > returned[i].prior

\* a propose started from a cached position at or below one its handle had already
\* returned, and still returned a larger one
C5_Witness ==
    \E i \in OkProposals :
        /\ returned[i].prior >= 0
        /\ returned[i].first <= returned[i].prior
        /\ returned[i].pos > returned[i].prior

\* the log positions of the verdicts for intention p
Verdicts(p) == {v \in 0..(Len(Log) - 1) : IsVerdict(Log[v + 1]) /\ Log[v + 1].ref = p}
Registered == DOMAIN decider.intention_states
\* the positions of the votes for p that the Decider processed after registering p
ProcessedVotes(p) ==
    {q \in 0..(Len(Log) - 1) : /\ p < q /\ q < decider.next_log_position
                                /\ Log[q + 1].kind = "Vote" /\ Log[q + 1].ref = p}
BooleanVotes(p) == {q \in ProcessedVotes(p) : Log[q + 1].val \in {"true", "false"}}
MinOf(S) == CHOOSE m \in S : \A q \in S : m <= q

(***************************************************************************)
(* C4: one Decider runs passes over the in-memory log, whose calls         *)
(* succeed, while clients append intentions, votes and policy entries: for *)
(* every intention id the log holds at most one verdict entry (Commit or   *)
(* Abort), and only registered intentions have one.                        *)
(***************************************************************************)
C4_OneVerdict ==
    \A p \in 0..Len(Log) :
        /\ Cardinality(Verdicts(p)) <= 1
        /\ Verdicts(p) # {} => (p \in Registered /\ Log[p + 1].kind = "Intention")

\* an intention has its verdict and the Decider has processed two votes for it that
\* disagree
C4_Witness ==
    \E p \in Registered :
        /\ Cardinality(Verdicts(p)) = 1
        /\ \E q1 \in BooleanVotes(p), q2 \in BooleanVotes(p) : Log[q1 + 1].val # Log[q2 + 1].val

(***************************************************************************)
(* C8: FirstBooleanWins.  An intention registered under FirstBooleanWins   *)
(* has no verdict as long as the Decider has processed no boolean vote for *)
(* it since registration; the first boolean vote processed decides it      *)
(* (Commit if true, Abort if false, with that vote's formatted reason) and *)
(* the votes processed later add no verdict.                               *)
(***************************************************************************)
C8_FirstBooleanWins ==
    \A p \in Registered :
        decider.intention_states[p].policy = "FirstBooleanWins" =>
            IF BooleanVotes(p) = {}
            THEN Verdicts(p) = {}
            ELSE LET q0 == MinOf(BooleanVotes(p))
                     vote == Log[q0 + 1]
                     reason == IF vote.llm.some
                               THEN "[" \o vote.llm.model \o "] " \o vote.llm.reason
                               ELSE "No reason provided" IN
                 \E v \in Verdicts(p) :
                     /\ Verdicts(p) = {v}
                     /\ v > q0
                     /\ Log[v + 1] = IF vote.val = "true" THEN Commit(p, reason)
                                     ELSE Abort(p, reason)

\* after registration a vote without a boolean was processed, then a false vote, which
\* aborted the intention
C8_Witness ==
    \E p \in Registered :
        /\ decider.intention_states[p].policy = "FirstBooleanWins"
        /\ BooleanVotes(p) # {}
        /\ \E q \in ProcessedVotes(p) : q < MinOf(BooleanVotes(p)) /\ Log[q + 1].val = "none"
        /\ \E v \in Verdicts(p) : Log[v + 1] = Abort(p, "[m] unsafe")

(***************************************************************************)
(* C9: default policies.  An intention at p processed while the policy is  *)
(* OnByDefault has exactly one verdict, Commit{p, "ON_BY_DEFAULT policy"}, *)
(* at a position after p; under OffByDefault exactly one                   *)
(* Abort{p, "OFF_BY_DEFAULT policy"}; votes for p processed afterwards add *)
(* or change nothing.                                                      *)
(***************************************************************************)
C9_DefaultPolicies ==
    \A p \in Registered :
        LET policy == decider.intention_states[p].policy IN
        /\ policy = "OnByDefault" =>
              \E v \in Verdicts(p) :
                  /\ Verdicts(p) = {v} /\ v > p
                  /\ Log[v + 1] = Commit(p, "ON_BY_DEFAULT policy")
        /\ policy = "OffByDefault" =>
              \E v \in Verdicts(p) :
                  /\ Verdicts(p) = {v} /\ v > p
                  /\ Log[v + 1] = Abort(p, "OFF_BY_DEFAULT policy")

\* an intention aborted under OffByDefault, set by a policy entry, and a true vote for
\* it processed after the verdict
C9_Witness ==
    \E p \in Registered :
        /\ decider.intention_states[p].policy = "OffByDefault"
        /\ \E q \in 0..(Len(Log) - 1) : q < p /\ Log[q + 1] = DeciderPolicy("OffByDefault")
        /\ \E v \in Verdicts(p), q \in BooleanVotes(p) : q > v /\ Log[q + 1].val = "true"

(***************************************************************************)
(* C10: over a space that does not fail, propose with a valid bus id and a *)
(* payload never returns AddressAlreadyExists; it retries at the next      *)
(* position on each conflict and, the competing writes being finitely      *)
(* many, eventually returns Ok with the position whose cell it claimed.    *)
(***************************************************************************)
C10_NoConflictSurfaced ==
    /\ \A i \in 1..Len(returned) : returned[i].state # "err"
    /\ \A i \in OkProposals : StateRead(spaces, BusA, returned[i].pos).bytes = returned[i].bytes
    /\ \A p \in Procs : call[p].op = "propose" =>
          \A a \in Positions : (returned[call[p].id].first <= a /\ a < call[p].position) =>
              Occupied(spaces, call[p].bus, a)

C10_ProposeTerminates ==
    /\ []C10_NoConflictSurfaced
    /\ \A i \in 1..MaxProposals :
          (Len(returned) >= i) ~> (Len(returned) >= i /\ returned[i].state = "ok")

\* a propose met a conflict, retried and returned Ok at a later position
C10_Witness ==
    \E i \in OkProposals : returned[i].pos > returned[i].first + 1

C1_WriteOnce ==
    /\ \A s \in SpaceIds, a \in Addrs :
        /\ okCount[s][a] <= 1
        /\ StateRead(spaces, s, a) = firstWritten[s][a]
        /\ okCount[s][a] = 1 <=> firstWritten[s][a].some
    /\ \A f \in Frontends :
        LET c == call[f]
            r == reply[f] IN
        /\ (c.op = "write" /\ r.state = "ready") =>
              \/ r.result = ResOk /\ firstWritten[c.space][c.address] = Some(c.value) /\ ~c.bound
              \/ r.result = AddressAlreadyExists(c.address) /\ firstWritten[c.space][c.address].some
        /\ (c.op = "write" /\ r.state = "canceled") => ~backendAlive
        /\ (c.op = "read" /\ r.state = "ready") =>
              /\ r.value.some => r.value = firstWritten[c.space][c.address]
              /\ c.bound => r.value = firstWritten[c.space][c.address]

\* A frontend lost the race for a cell another frontend's write had claimed,
\* after the cell was free when it sent its write.
C1_Witness ==
    \E f \in Frontends :
        /\ call[f].op = "write" /\ ~call[f].bound
        /\ reply[f].state = "ready"
        /\ reply[f].result = AddressAlreadyExists(call[f].address)
        /\ firstWritten[call[f].space][call[f].address].some
        /\ firstWritten[call[f].space][call[f].address] # Some(call[f].value)

(***************************************************************************)
(* The sequential client's claims (SpecSeq).                               *)
(***************************************************************************)
\* the successful propose calls on the bus of the i-th one that came before it
EarlierOnBus(i) == {j \in 1..(i - 1) : returned[j].bus_id = returned[i].bus_id}

\* C11: with a single writer on a bus (the in-memory log, or one WriteOnceAgentBus
\* handle, restarted or not), the successive successful propose calls on the bus
\* return 0, 1, 2, ...: consecutive positions without a gap or a repetition,
\* starting at 0 on an empty bus.
C11_ConsecutivePositions ==
    \A i \in 1..Len(returned) :
        /\ returned[i].wo = Cardinality(EarlierOnBus(i))
        /\ returned[i].mem = Cardinality(EarlierOnBus(i))

\* three successive proposes on a bus have returned 0, 1, 2 from both logs
C11_Witness ==
    /\ Len(returned) >= 3
    /\ \A i \in 1..3 : returned[i].bus_id = BusA /\ returned[i].wo = i - 1
                       /\ returned[i].mem = i - 1
    /\ last_call.op = "propose" /\ last_call.wo.ok

\* the payloads of the successful propose calls on bus b, in call order
ProposedOn(b) == SelectSeq(returned, LAMBDA r : r.bus_id = b)

\* the last call was a propose that validation let through, made by a handle whose
\* cached position for the bus was 0
FreshPropose ==
    /\ last_call # <<>>
    /\ last_call.op = "propose"
    /\ last_call.cache_before = 0
    /\ validate_bus_id(last_call.bus_id)
    /\ last_call.payload # NoPayload

\* the last call was a poll from 0 without a filter, with room for k + 1 entries, of
\* the bus that the call before it, a propose of a handle with cached position 0,
\* appended to over k occupied cells
PollAfterFreshPropose ==
    /\ last_call # <<>>
    /\ last_call.op = "poll"
    /\ last_call.prev.fresh
    /\ last_call.request.bus_id = last_call.prev.bus_id
    /\ last_call.request.start_log_position <= 0
    /\ ~last_call.request.filter.some
    /\ PollMaxEntries(last_call.request.max_entries) > last_call.prev.tail_before

\* C12: a WriteOnceAgentBus handle whose cached next position for a bus is 0 (fresh
\* or restarted), proposing alone to a bus whose cells 0..k-1 are occupied, skips
\* them, writes its payload at k, returns log_position = k and leaves the k cells
\* unchanged; a following poll from 0 returns the k old entries and then the new one.
C12_RestartSkipsOccupied ==
    /\ FreshPropose =>
        /\ last_call.wo.ok
        /\ last_call.wo.log_position = last_call.tail_before
        /\ last_call.kept
        /\ StateRead(spaces, last_call.bus_id, last_call.tail_before)
               = Some(serialize_payload(last_call.payload))
    /\ PollAfterFreshPropose =>
        LET k == last_call.prev.tail_before
            old == ProposedOn(last_call.prev.bus_id) IN
        /\ Len(old) = k + 1
        /\ old[k + 1].payload = last_call.prev.payload
        /\ last_call.wo.entries
               = [i \in 1..(k + 1) |-> [log_position |-> i - 1, payload |-> old[i].payload]]
        /\ last_call.wo.complete

\* a restarted handle has proposed over occupied cells, and the poll after it has run
C12_Witness ==
    /\ PollAfterFreshPropose
    /\ last_call.prev.tail_before >= 1
    /\ last_call.prev.log_position = last_call.prev.tail_before

\* a restarted handle has skipped a long run of occupied cells
C12_WitnessLongSkip ==
    /\ FreshPropose
    /\ last_call.tail_before >= MAX_POLL_ENTRIES
    /\ last_call.wo.log_position = last_call.tail_before

\* the last call was a poll
LastPoll == last_call # <<>> /\ last_call.op = "poll"
\* the responses of the two logs to the last call
LastResponses == {last_call.wo, last_call.mem}
\* the start position and the cap the last poll worked with
LastStart == Max(last_call.request.start_log_position, 0)
LastCap == PollMaxEntries(last_call.request.max_entries)
\* the entries of the polled bus at or after the start position, as the proposes
\* placed them
InRange ==
    LET old == ProposedOn(last_call.request.bus_id) IN
    [i \in 1..Max(Len(old) - LastStart, 0) |->
        [log_position |-> LastStart + i - 1, payload |-> old[LastStart + i].payload]]

\* C13: on both logs every entry a filtered poll returns has a payload type that is
\* in the filter's payload_types; with an empty filter list the response is
\* entries = [] and complete = true whatever the log holds; with no filter every
\* payload is eligible: the poll returns the entries from the start position on, of
\* every type, up to its cap.
C13_FilterSoundness ==
    LastPoll => \A r \in LastResponses :
        /\ last_call.request.filter.some =>
              \A i \in 1..Len(r.entries) :
                  /\ HasPayloadType(r.entries[i].payload)
                  /\ get_payload_type(r.entries[i].payload) \in last_call.request.filter.types
        /\ (last_call.request.filter.some /\ last_call.request.filter.types = {}) =>
              r.entries = <<>> /\ r.complete
        /\ ~last_call.request.filter.some =>
              r.entries = SubSeq(InRange, 1, Min(Len(InRange), LastCap))

\* a poll with a filter has returned a vote and left out an intention of the bus
C13_Witness ==
    /\ LastPoll
    /\ last_call.request.filter = FilterOf({"Vote", "Commit"})
    /\ Len(last_call.wo.entries) = 1 /\ Len(last_call.mem.entries) = 1
    /\ Len(InRange) = 2
    /\ \E i \in 1..2 : InRange[i].payload.kind = "Intention"

\* C14: for every poll request with max_entries >= 0, on both logs, the response
\* holds at most min(max_entries, 64) entries, and a response with complete = false
\* holds exactly min(max_entries, 64) entries.
C14_PollCap ==
    (LastPoll /\ last_call.request.max_entries >= 0) =>
        \A r \in LastResponses :
            /\ Len(r.entries) <= Min(last_call.request.max_entries, MAX_POLL_ENTRIES)
            /\ ~r.complete =>
                  Len(r.entries) = Min(last_call.request.max_entries, MAX_POLL_ENTRIES)

\* a poll that asked for more than 64 entries of a bus that holds more than 64 has
\* returned 64 entries and complete = false
C14_Witness ==
    /\ LastPoll
    /\ last_call.request.max_entries > MAX_POLL_ENTRIES
    /\ Len(InRange) > MAX_POLL_ENTRIES
    /\ \A r \in LastResponses : Len(r.entries) = MAX_POLL_ENTRIES /\ ~r.complete

\* the entries at or after the start position that the last poll's filter lets through
Matching ==
    SelectSeq(InRange, LAMBDA e : payload_matches_filter(e.payload, last_call.request.filter))
\* a matching entry lies after the last entry of response r, or anywhere at or after
\* the start position when r holds no entry
FurtherMatch(r) ==
    \E i \in 1..Len(Matching) :
        r.entries = <<>> \/ Matching[i].log_position > r.entries[Len(r.entries)].log_position

\* C15: a poll answers complete = true whenever it has returned every entry between
\* the start position and the tail that matches the filter, even when it returned
\* max_entries entries and entries that do not match follow; it answers
\* complete = false exactly when a further matching entry lies after the last one it
\* returned.
C15_CompleteFlag ==
    LastPoll => \A r \in LastResponses :
        /\ r.entries = SubSeq(Matching, 1, Len(r.entries))
        /\ r.entries = Matching => r.complete
        /\ ~r.complete <=> FurtherMatch(r)

\* a filtered poll has returned max_entries entries, all that match, before an entry
\* that does not match, and has answered complete = true
C15_Witness ==
    /\ LastPoll
    /\ last_call.request.filter = FilterOf({"Intention"})
    /\ last_call.request.max_entries = 1
    /\ Len(InRange) = 2 /\ InRange[2].payload.kind = "Vote"
    /\ \A r \in LastResponses : Len(r.entries) = 1 /\ r.complete

\* a poll cut at its cap has answered complete = false
C15_WitnessCut ==
    /\ LastPoll
    /\ last_call.request.max_entries = 1
    /\ Len(Matching) = 2
    /\ \A r \in LastResponses : Len(r.entries) = 1 /\ ~r.complete

\* the last call was a poll with max_entries = 0
ZeroMaxPoll == LastPoll /\ last_call.request.max_entries = 0

\* C16 as stated: a poll with max_entries = 0 returns entries = [] and
\* complete = true, for every log content, start position and filter.
C16_ZeroMaxComplete ==
    ZeroMaxPoll => \A r \in LastResponses : r.entries = <<>> /\ r.complete

\* C16, amended: a poll with max_entries = 0 returns entries = [], with
\* complete = true when no entry at or after the start position matches the filter
\* and complete = false when one does.
C16_ZeroMaxEmpty ==
    ZeroMaxPoll => \A r \in LastResponses :
        /\ r.entries = <<>>
        /\ r.complete <=> Matching = <<>>

\* a poll with max_entries = 0 of a bus that holds a matching entry has answered
\* entries = [] and complete = false
C16_Witness ==
    /\ ZeroMaxPoll
    /\ Matching # <<>>
    /\ \A r \in LastResponses : r.entries = <<>> /\ ~r.complete

\* the cells of bus b hold the payloads of the successful proposes on b, each at the
\* position its propose returned, and nothing else
CellsAsProposed(b) ==
    LET old == ProposedOn(b) IN
    \A a \in SeqPositions :
        StateRead(spaces, b, a) =
            IF a < Len(old) THEN Some(serialize_payload(old[a + 1].payload)) ELSE None
\* the in-memory log of bus b holds the same payloads at the same positions
LogAsProposed(b) ==
    LET old == ProposedOn(b) IN
    IF old = <<>> THEN b \notin DOMAIN buses
    ELSE b \in DOMAIN buses /\ buses[b] = [i \in 1..Len(old) |-> old[i].payload]

\* C17: the log is append-only.  Once a successful propose has placed payload x at
\* position p of a bus, x stays at p: no later propose or poll changes, moves or
\* removes it, and every later poll whose range and filter cover p returns x with
\* log_position = p.
C17_AppendOnly ==
    /\ \A i \in 1..Len(returned) :
          /\ returned[i].wo = returned[i].mem
          /\ ProposedOn(returned[i].bus_id)[returned[i].wo + 1] = returned[i]
    /\ \A b \in SeqValidBusIds : CellsAsProposed(b) /\ LogAsProposed(b)
    /\ LastPoll => \A r \in LastResponses :
          \A i \in 1..Len(r.entries) :
              /\ r.entries[i].log_position \in LastStart..(Len(ProposedOn(last_call.request.bus_id)) - 1)
              /\ r.entries[i].payload
                     = ProposedOn(last_call.request.bus_id)[r.entries[i].log_position + 1].payload
    /\ LastPoll => \A r \in LastResponses :
          \A i \in 1..Min(Len(Matching), LastCap) : r.entries[i] = Matching[i]

\* after a restart of the handle and a second propose on the bus, a poll has returned
\* the first propose's payload at its position
C17_Witness ==
    /\ LastPoll
    /\ last_call.prev.fresh /\ last_call.prev.tail_before >= 1
    /\ \A r \in LastResponses :
          /\ r.entries # <<>>
          /\ r.entries[1].log_position = 0
          /\ r.entries[1].payload = ProposedOn(last_call.request.bus_id)[1].payload

\* C18: every call of a sequence of propose and poll calls issued one after another
\* through one WriteOnceAgentBus handle over an in-memory write-once space that
\* started empty returns what the same call returns from the in-memory log that
\* started empty: error or not, log_position, the entries with their positions, and
\* the complete flag.
C18_SameAsInMemoryLog ==
    last_call # <<>> => last_call.wo = last_call.mem

\* the handle, not restarted since its two proposes, has answered a poll with two
\* entries, as the in-memory log did
C18_Witness ==
    /\ LastPoll
    /\ last_call.cache_before = 2 /\ last_call.tail_before = 2
    /\ Len(last_call.wo.entries) = 2
    /\ last_call.wo = last_call.mem

\* both logs have rejected a propose
C18_WitnessError ==
    /\ last_call # <<>> /\ last_call.op = "propose"
    /\ ~last_call.wo.ok /\ ~last_call.mem.ok

\* the last call was a propose
LastPropose == last_call # <<>> /\ last_call.op = "propose"
\* a bus-id as the claim describes a valid one: 1 to 256 characters, each an ASCII
\* letter or digit or one of - _ . /
WellFormedId(id) ==
    /\ Len(id) >= 1 /\ Len(id) <= 256
    /\ \A i \in 1..Len(id) : id[i] \in AsciiAlphanumeric \cup {"-", "_", ".", "/"}

\* C19: a propose whose bus-id is invalid (empty, longer than 256 characters, or with
\* a character outside ASCII alphanumerics, '-', '_', '.', '/') or whose payload is
\* missing returns an error and changes nothing: no cell is written, no bus is
\* materialized, the cached next position is unchanged; a propose with a valid
\* bus-id of length 1..=256 is not rejected by validation.
C19_InvalidProposeRejected ==
    LastPropose =>
        /\ (~WellFormedId(last_call.bus_id) \/ last_call.payload = NoPayload) =>
              /\ ~last_call.wo.ok /\ ~last_call.mem.ok
              /\ ~last_call.changed
        /\ ~WellFormedId(last_call.bus_id) =>
              /\ last_call.bus_id \notin DOMAIN buses
              /\ \A a \in SeqPositions : ~Occupied(spaces, last_call.bus_id, a)
              /\ get_next_position(next_positions, SeqHandle, last_call.bus_id) = 0
        /\ (WellFormedId(last_call.bus_id) /\ last_call.payload # NoPayload) =>
              last_call.wo.ok /\ last_call.mem.ok

\* a propose on a bus-id of 256 characters has succeeded, and after it a propose on a
\* bus-id of 257 characters has been rejected
C19_Witness ==
    /\ \E i \in 1..Len(returned) : Len(returned[i].bus_id) = MAX_BUS_ID_LEN
    /\ LastPropose
    /\ Len(last_call.bus_id) = MAX_BUS_ID_LEN + 1
    /\ ~last_call.wo.ok /\ ~last_call.mem.ok /\ ~last_call.changed

\* a propose without a payload on a bus that holds an entry has been rejected
C19_WitnessNoPayload ==
    /\ LastPropose
    /\ last_call.payload = NoPayload /\ last_call.tail_before >= 1
    /\ ~last_call.wo.ok /\ ~last_call.mem.ok /\ ~last_call.changed

\* C20: a poll that references an invalid bus identifier is rejected with an error, by
\* the in-memory log and by WriteOnceAgentBus, instead of returning a response.
C20_InvalidPollRejected ==
    (LastPoll /\ ~WellFormedId(last_call.request.bus_id)) =>
        ~last_call.wo.ok /\ ~last_call.mem.ok

\* C21: buses with different identifiers share no state.  A propose or poll on one
\* bus leaves the entries and the cached position of every other bus as they were,
\* the positions a bus hands out count the proposes on that bus only, a poll returns
\* entries of the polled bus only, and a poll on a bus that was never proposed to
\* returns entries = [] with complete = true.
C21_BusesShareNoState ==
    /\ last_call # <<>> => last_call.others_kept
    /\ \A i \in 1..Len(returned) :
          LET n == Cardinality({j \in 1..(i - 1) : returned[j].bus_id = returned[i].bus_id}) IN
          returned[i].wo = n /\ returned[i].mem = n
    /\ LastPoll => \A r \in LastResponses :
          /\ r.entries = SubSeq(Matching, 1, Min(Len(Matching), LastCap))
          /\ ProposedOn(last_call.request.bus_id) = <<>> => r.entries = <<>> /\ r.complete

\* two buses hold entries, and a poll of the one has returned its single entry
C21_Witness ==
    /\ LastPoll
    /\ last_call.request.bus_id = BusMax
    /\ Len(ProposedOn(BusMax)) = 1 /\ Len(ProposedOn(BusA)) = 1
    /\ \A r \in LastResponses :
          r.entries = <<[log_position |-> 0, payload |-> ProposedOn(BusMax)[1].payload]>>

\* a poll of a bus never proposed to, next to a bus that holds entries, has returned
\* nothing
C21_WitnessNeverProposed ==
    /\ LastPoll
    /\ last_call.request.bus_id = BusMax
    /\ ProposedOn(BusMax) = <<>> /\ Len(ProposedOn(BusA)) = 2
    /\ \A r \in LastResponses : r.entries = <<>> /\ r.complete

(***************************************************************************)
(* The Decider's claims on votes and policies (SpecDecider).               *)
(***************************************************************************)
\* the step processes the entry at the head of the Decider's batch
ProcessesHead == decider.in_pass /\ decider' # decider
\* the entry at the head of the batch is a vote that names an intention the Decider
\* has not registered
HeadIsStrayVote ==
    /\ decider.in_pass
    /\ Head(decider.batch).payload.kind = "Vote"
    /\ Head(decider.batch).payload.ref \notin DOMAIN decider.intention_states

\* C22: when the Decider processes a Vote whose intention_id is not a key of its
\* intention state, it appends nothing to the log, leaves the state of every
\* registered intention unchanged, and still advances next_log_position past the
\* vote (process_vote returns Ok: the pass goes on with the next entry).
C22_StrayVoteSkipped ==
    [][(HeadIsStrayVote /\ ProcessesHead) =>
          /\ buses' = buses
          /\ decider'.intention_states = decider.intention_states
          /\ decider'.current_decider_policy = decider.current_decider_policy
          /\ decider'.next_log_position = Head(decider.batch).log_position + 1
          /\ decider'.batch = Tail(decider.batch)]_vars

\* the Decider has gone past a vote for an intention it had not registered, and has
\* registered an intention after it
C22_Witness ==
    /\ Len(Log) >= 2
    /\ Log[1].kind = "Vote"
    /\ decider.next_log_position >= 2
    /\ DOMAIN decider.intention_states # {}

MaxOf(S) == CHOOSE m \in S : \A q \in S : m >= q

\* the entry at the head of the batch is a DeciderPolicy entry
HeadIsPolicy == decider.in_pass /\ Head(decider.batch).payload.kind = "DeciderPolicy"
\* the positions before q that hold a DeciderPolicy entry
PoliciesBefore(q) == {p \in 0..(q - 1) : Log[p + 1].kind = "DeciderPolicy"}
\* the boolean votes for intention q that the Decider has processed
BooleanVotesProcessedFor(q) ==
    {p \in (q + 1)..(decider.next_log_position - 1) :
        Log[p + 1].kind = "Vote" /\ Log[p + 1].ref = q /\ IsBooleanVote(Log[p + 1])}
VerdictsFor(q) == {p \in 1..Len(Log) : IsVerdict(Log[p]) /\ Log[p].ref = q}

\* every registered intention holds the vote record of the policy that was current
\* when it was registered, whatever the current policy is now
C23_RecordsKeepPolicy ==
    \A q \in DOMAIN decider.intention_states :
        LET st == decider.intention_states[q] IN
        /\ st.vote_tracker.type = create_vote_tracker_for_decider_policy(st.policy).type
        /\ PoliciesBefore(q) # {} =>
              st.policy = Log[MaxOf(PoliciesBefore(q)) + 1].val
        /\ st.policy = "FirstBooleanWins" =>
              /\ st.decision_made <=> BooleanVotesProcessedFor(q) # {}
              /\ ~st.decision_made => VerdictsFor(q) = {}
        /\ Cardinality(VerdictsFor(q)) <= 1

\* C23: processing a DeciderPolicy entry changes only the policy applied to
\* intentions registered afterwards.  The step sets the current policy and leaves
\* every vote record and the log as they were; an intention keeps the vote record of
\* the policy it was registered under, so one registered under FirstBooleanWins stays
\* undecided after a switch to OnByDefault until a boolean vote for it is processed,
\* and one already decided gets no second verdict after any switch.
C23_PolicySwitchFrame ==
    /\ []C23_RecordsKeepPolicy
    /\ [][(HeadIsPolicy /\ ProcessesHead) =>
             /\ decider'.intention_states = decider.intention_states
             /\ decider'.current_decider_policy = Head(decider.batch).payload.val
             /\ buses' = buses]_vars

\* an intention registered under FirstBooleanWins is still undecided after the Decider
\* has processed a switch to OnByDefault
C23_Witness ==
    \E q \in DOMAIN decider.intention_states :
        /\ decider.intention_states[q].policy = "FirstBooleanWins"
        /\ ~decider.intention_states[q].decision_made
        /\ decider.current_decider_policy = "OnByDefault"
        /\ \E p \in (q + 1)..(decider.next_log_position - 1) :
              Log[p + 1] = DeciderPolicy("OnByDefault")

\* an intention decided under OnByDefault has one verdict after the Decider has
\* processed a switch to OffByDefault and a vote for it
C23_WitnessDecided ==
    \E q \in DOMAIN decider.intention_states :
        /\ decider.intention_states[q].policy = "OnByDefault"
        /\ decider.current_decider_policy = "OffByDefault"
        /\ Cardinality(VerdictsFor(q)) = 1
        /\ \E p \in (q + 1)..(decider.next_log_position - 1) :
              Log[p + 1].kind = "Vote" /\ Log[p + 1].ref = q

(***************************************************************************)
(* Decider::run over a bus whose calls can fail.  The bus is the           *)
(* FaultInjectingAgentBus over a channeled in-memory log: a propose gets   *)
(* one of the four fates, and once the backend task is gone every call of  *)
(* the inner bus fails.  The bus either applies the filter of a poll       *)
(* request, as the logs of this repository do, or returns entries of every *)
(* payload: the AgentBus trait leaves the filter to the implementation,    *)
(* and process_entry has branches for the entries a filter would keep away.*)
(***************************************************************************)
MaxRunEntries == 3     \* entries the clients append to the bus of the running Decider

Control == MkPayload("Control", 0, "", "")
Fates == {"Success", "Lost", "CommitThenError", "ErrorThenCommit"}
RunPolicies == {"OnByDefault", "FirstBooleanWins"}
RunPayloads == {Intention(Body(1)), Vote(0, "true", NoLlm), Control, EmptyPayload}

\* the inner bus's propose: the channel is closed once the backend is gone
InnerPropose(bs, alive, bus_id, pl) ==
    IF alive THEN MemPropose(bs, bus_id, pl)
    ELSE [buses |-> bs, ok |-> FALSE, log_position |-> -1]

\* A fault injector whose lost request reaches the inner bus all the same.
FaultProposeLostCommits(bs, alive, spawned, fate, bus_id, pl) ==
    LET inner == InnerPropose(bs, alive, bus_id, pl) IN
    IF fate = "Success"
    THEN [buses |-> inner.buses, spawned |-> spawned, ok |-> inner.ok,
          log_position |-> inner.log_position]
    ELSE IF fate = "ErrorThenCommit"
    THEN [buses |-> bs, spawned |-> Append(spawned, [bus_id |-> bus_id, payload |-> pl]),
          ok |-> FALSE, log_position |-> -1]
    ELSE [buses |-> inner.buses, spawned |-> spawned, ok |-> FALSE, log_position |-> -1]

\* A fault injector that forwards a request once itself and once more in the background.
FaultProposeTwice(bs, alive, spawned, fate, bus_id, pl) ==
    LET inner == InnerPropose(bs, alive, bus_id, pl) IN
    IF fate = "Success"
    THEN [buses |-> inner.buses, spawned |-> spawned, ok |-> inner.ok,
          log_position |-> inner.log_position]
    ELSE IF fate = "Lost"
    THEN [buses |-> bs, spawned |-> spawned, ok |-> FALSE, log_position |-> -1]
    ELSE IF fate = "CommitThenError"
    THEN [buses |-> inner.buses, spawned |-> spawned, ok |-> FALSE, log_position |-> -1]
    ELSE [buses |-> inner.buses,
          spawned |-> Append(spawned, [bus_id |-> bus_id, payload |-> pl]),
          ok |-> FALSE, log_position |-> -1]

\* FaultInjectingAgentBus::propose under the fate drawn
FaultPropose(bs, alive, spawned, fate, bus_id, pl) ==
    LET inner == InnerPropose(bs, alive, bus_id, pl) IN
    IF fate = "Success"
    THEN [buses |-> inner.buses, spawned |-> spawned, ok |-> inner.ok,
          log_position |-> inner.log_position]
    ELSE IF fate = "Lost"
    THEN [buses |-> bs, spawned |-> spawned, ok |-> FALSE, log_position |-> -1]
    ELSE IF fate = "CommitThenError"
    THEN [buses |-> inner.buses, spawned |-> spawned, ok |-> FALSE, log_position |-> -1]
    ELSE [buses |-> bs, spawned |-> Append(spawned, [bus_id |-> bus_id, payload |-> pl]),
          ok |-> FALSE, log_position |-> -1]

\* the sequence s without its i-th element
RemoveAt(s, i) == [j \in 1..(Len(s) - 1) |-> IF j < i THEN s[j] ELSE s[j + 1]]

\* process_entry: a Control entry or a payload without a variant
IsUnknownPayload(pl) == pl.kind = "Control" \/ pl.kind = "Empty"

\* A process_entry that goes past an entry it does not know, as the Voter does.
process_entrySkipUnknown(d, entry) ==
    IF IsUnknownPayload(entry.payload)
    THEN [decider |-> [d EXCEPT !.next_log_position = entry.log_position + 1],
          verdict |-> NoDecision, intention_id |-> 0, error |-> "none"]
    ELSE ProcessEntry(d, entry) @@ [error |-> "none"]

\* Decider::process_entry with its error result
process_entry(d, entry) ==
    IF IsUnknownPayload(entry.payload)
    THEN [decider |-> d, verdict |-> NoDecision, intention_id |-> 0,
          error |-> "UnknownPayloadType"]
    ELSE ProcessEntry(d, entry) @@ [error |-> "none"]

\* Decider::new, with what run has returned so far
DeciderRunNew(initial_decider_policy) ==
    DeciderNew(initial_decider_policy) @@ [result |-> "running", error_position |-> -1]

FaultNew(filtering) == [filtering |-> filtering, spawned |-> <<>>, fate |-> "none"]

outsideRun == <<spaces, chan, reply, call, okCount, firstWritten, woVars, linVars, sim,
                last_call>>

\* a client appends an entry through the inner bus
RunClientPropose(pl) ==
    /\ backendAlive
    /\ ClientEntryCount < MaxRunEntries
    /\ buses' = MemPropose(buses, BusD, pl).buses
    /\ UNCHANGED <<decider, backendAlive, fault, outsideRun>>

\* the backend task of the inner bus ends
RunBusStop ==
    /\ backendAlive
    /\ backendAlive' = FALSE
    /\ UNCHANGED <<buses, decider, fault, outsideRun>>

\* run: the poll of poll_and_decide
RunPoll ==
    /\ decider.result = "running"
    /\ ~decider.in_pass
    /\ IF ~backendAlive
       THEN decider' = [decider EXCEPT !.result = "FailedAgentBusCall"]
       ELSE LET response ==
                    MemPoll(buses, PollRequest(BusD, decider.next_log_position, 64,
                                               IF fault.filtering THEN DeciderFilter
                                               ELSE NoFilter)) IN
            decider' = [decider EXCEPT !.batch = response.entries,
                                       !.in_pass = response.entries # <<>>]
    /\ UNCHANGED <<buses, backendAlive, fault, outsideRun>>

\* run: process_entry on the next entry of the batch, with the fate of the verdict's
\* propose if the entry brings a verdict
RunProcess(fate) ==
    /\ decider.result = "running"
    /\ decider.in_pass
    /\ LET r == process_entry(decider, Head(decider.batch))
           p == FaultPropose(buses, backendAlive, fault.spawned, fate, BusD,
                             DecisionPayload(r.intention_id, r.verdict))
           done == [r.decider EXCEPT !.batch = Tail(decider.batch),
                                     !.in_pass = Tail(decider.batch) # <<>>] IN
       IF r.error # "none"
       THEN /\ decider' = [decider EXCEPT !.result = r.error,
                                          !.error_position = Head(decider.batch).log_position]
            /\ UNCHANGED <<buses, fault>>
       ELSE IF r.verdict.some
       THEN /\ buses' = p.buses
            /\ fault' = [fault EXCEPT !.spawned = p.spawned, !.fate = fate]
            /\ decider' = IF p.ok THEN done
                          ELSE [r.decider EXCEPT
                                   !.next_log_position = decider.next_log_position,
                                   !.result = "FailedAgentBusCall"]
       ELSE /\ decider' = done
            /\ UNCHANGED <<buses, fault>>
    /\ UNCHANGED <<backendAlive, outsideRun>>

\* a forward spawned by ErrorThenCommit runs
RunForward(i) ==
    /\ i \in 1..Len(fault.spawned)
    /\ buses' = InnerPropose(buses, backendAlive, fault.spawned[i].bus_id,
                             fault.spawned[i].payload).buses
    /\ fault' = [fault EXCEPT !.spawned = RemoveAt(fault.spawned, i)]
    /\ UNCHANGED <<decider, backendAlive, outsideRun>>

InitRun ==
    /\ WoNew /\ LinUnused /\ SimUnused /\ SeqUnused
    /\ buses = NoBuses
    /\ \E policy \in RunPolicies : decider = DeciderRunNew(policy)
    /\ \E filtering \in BOOLEAN : fault = FaultNew(filtering)

NextRun ==
    \/ \E pl \in RunPayloads : RunClientPropose(pl)
    \/ RunBusStop
    \/ RunPoll
    \/ \E fate \in Fates : RunProcess(fate)
    \/ \E i \in 1..MaxRunEntries : RunForward(i)

SpecRun == InitRun /\ [][NextRun]_vars

\* run has not returned, and this step is a step of run
RunSteps == decider.result = "running" /\ decider' # decider
\* the entry run is about to process
RunHead == Head(decider.batch)
\* the entry run is about to process is a Control entry or has no payload variant
HeadIsUnknown ==
    decider.in_pass /\ (RunHead.payload.kind = "Control" \/ RunHead.payload.kind = "Empty")
\* the entry run is about to process brings a verdict to propose
HeadBringsVerdict ==
    decider.in_pass /\ ~HeadIsUnknown /\ ProcessEntry(decider, RunHead).verdict.some

\* what holds of a run that has returned
C24_ReturnedAtFailure ==
    /\ decider.result \in {"running", "FailedAgentBusCall", "UnknownPayloadType"}
    /\ decider.result = "UnknownPayloadType" =>
          /\ decider.error_position = RunHead.log_position
          /\ Log[decider.error_position + 1].kind \in {"Control", "Empty"}
          /\ decider.next_log_position <= decider.error_position
    /\ (decider.result = "FailedAgentBusCall" /\ decider.batch # <<>>) =>
          decider.next_log_position <= RunHead.log_position
    /\ decider.result # "running" =>
          \A q \in DOMAIN decider.intention_states :
              decider.batch # <<>> => q <= RunHead.log_position

\* C24: Decider.run ends at the first failure.  A failed poll and a failed verdict
\* propose make it return FailedAgentBusCall, an entry with an unexpected or missing
\* payload at position p makes it return UnknownPayloadType(p); in both cases no
\* entry after the failing one is processed and next_log_position does not go past
\* it; and run returns only at a failure.
C24_RunEndsAtFirstFailure ==
    /\ []C24_ReturnedAtFailure
    /\ [][(RunSteps /\ ~decider.in_pass /\ ~backendAlive) =>
             /\ decider'.result = "FailedAgentBusCall"
             /\ decider'.next_log_position = decider.next_log_position
             /\ decider'.intention_states = decider.intention_states]_vars
    /\ [][(RunSteps /\ HeadIsUnknown) =>
             /\ decider'.result = "UnknownPayloadType"
             /\ decider'.error_position = RunHead.log_position
             /\ decider'.next_log_position = decider.next_log_position
             /\ buses' = buses]_vars
    /\ [][(RunSteps /\ HeadBringsVerdict /\ (fault'.fate # "Success" \/ ~backendAlive)) =>
             /\ decider'.result = "FailedAgentBusCall"
             /\ decider'.next_log_position = decider.next_log_position
             /\ decider'.batch = decider.batch]_vars
    /\ [][decider.result # "running" => decider' = decider]_vars
    /\ [][(RunSteps /\ decider'.result # "running") =>
             \/ ~backendAlive
             \/ HeadIsUnknown
             \/ HeadBringsVerdict /\ fault'.fate # "Success"]_vars

\* run has returned UnknownPayloadType(p) for an entry at p >= 1 that has entries
\* after it, having processed the entries before p
C24_Witness ==
    /\ decider.result = "UnknownPayloadType"
    /\ decider.error_position >= 1
    /\ decider.next_log_position = decider.error_position
    /\ Len(Log) > decider.error_position + 1

\* run has returned FailedAgentBusCall from a verdict propose that the fault injector
\* failed, with an entry after the failing one in its batch
C24_WitnessPropose ==
    /\ decider.result = "FailedAgentBusCall"
    /\ backendAlive
    /\ Len(decider.batch) >= 2
    /\ fault.fate \in {"Lost", "CommitThenError", "ErrorThenCommit"}

\* run has returned FailedAgentBusCall from a poll
C24_WitnessPoll ==
    /\ decider.result = "FailedAgentBusCall"
    /\ decider.batch = <<>>
    /\ decider.next_log_position >= 1
    /\ Len(Log) > decider.next_log_position

(***************************************************************************)
(* The Voter (core/src/voter.rs) running over a bus that can fail, with    *)
(* an evaluator that answers with a fixed text or fails.  The text is a    *)
(* sequence of pieces: the two tags, words and white space.                *)
(***************************************************************************)
MaxVoterEntries == 2   \* entries the clients append to the Voter's bus
MaxVoterFaults == 2    \* failures the bus injects in one behaviour
MaxResponseLen == 4    \* pieces of the evaluator's response

ResponsePieces == {"<safe>", "</safe>", "true", "TRUE", " ", "no"}
RECURSIVE SeqsUpTo(_, _)
SeqsUpTo(S, n) ==
    IF n = 0 THEN {<<>>}
    ELSE LET shorter == SeqsUpTo(S, n - 1) IN
         shorter \cup {Append(s, x) : s \in {t \in shorter : Len(t) = n - 1}, x \in S}
Responses == SeqsUpTo(ResponsePieces, MaxResponseLen)

\* Option<Arc<dyn LlmClient>>: no client, or a client that fails or answers
NoLlmClient == [some |-> FALSE, fails |-> FALSE, response |-> <<>>]
LlmClient(fails, response) == [some |-> TRUE, fails |-> fails, response |-> response]

VoterPolicy(prompt_override) == MkPayload("VoterPolicy", 0, prompt_override, "")
VoterFilter == FilterOf({"Intention", "VoterPolicy"})
VoterPayloads == {Intention(Body(1)), VoterPolicy("strict"), Control, EmptyPayload}

\* str::find from a position on: the first index of the piece, 0 for None
Find(s, from, piece) ==
    IF \E i \in from..Len(s) : s[i] = piece
    THEN CHOOSE i \in from..Len(s) : s[i] = piece /\ \A j \in from..(i - 1) : s[j] # piece
    ELSE 0

RECURSIVE trim(_)
\* str::trim: white space at both ends goes
trim(s) ==
    IF s = <<>> THEN s
    ELSE IF Head(s) = " " THEN trim(Tail(s))
    ELSE IF s[Len(s)] = " " THEN trim(SubSeq(s, 1, Len(s) - 1))
    ELSE s

to_ascii_lowercase(piece) == IF piece = "TRUE" THEN "true" ELSE piece
eq_ignore_ascii_case(s, t) ==
    /\ Len(s) = Len(t)
    /\ \A i \in 1..Len(s) : to_ascii_lowercase(s[i]) = to_ascii_lowercase(t[i])

\* A parser that approves when the first <safe> tag is not closed.
parse_safety_responseOpen(response) ==
    LET start == Find(response, 1, "<safe>")
        end == Find(response, start, "</safe>") IN
    IF start = 0 THEN FALSE
    ELSE IF end = 0
    THEN eq_ignore_ascii_case(trim(SubSeq(response, start + 1, Len(response))), <<"true">>)
    ELSE eq_ignore_ascii_case(trim(SubSeq(response, start + 1, end - 1)), <<"true">>)

\* parse_safety_response: is_safe
parse_safety_response(response) ==
    LET start == Find(response, 1, "<safe>")
        end == Find(response, start, "</safe>") IN
    IF start = 0 THEN FALSE
    ELSE IF end = 0 THEN FALSE
    ELSE eq_ignore_ascii_case(trim(SubSeq(response, start + 1, end - 1)), <<"true">>)

\* evaluate_with_llm: (is_safe, reason)
evaluate_with_llm(client) ==
    IF client.fails THEN [is_safe |-> FALSE, reason |-> "LLM call failed"]
    ELSE [is_safe |-> parse_safety_response(client.response), reason |-> "parsed"]

\* Voter::vote
vote(v, intention_id) ==
    LET e == IF v.llm_client.some THEN evaluate_with_llm(v.llm_client)
             ELSE [is_safe |-> TRUE, reason |-> "placeholder approval"] IN
    Vote(intention_id, IF e.is_safe THEN "true" ELSE "false", Llm("model", e.reason))

\* Voter::with_llm_client and Voter::new, with what run has returned so far and the
\* sleep it is in, in multiples of poll_interval
LlmVoterNew(llm_client) ==
    [next_log_position |-> 0, prompt_override |-> "", llm_client |-> llm_client,
     batch |-> <<>>, in_pass |-> FALSE, sleep |-> 0, result |-> "running"]

\* A run that goes on from the same position after an entry it does not know.
VoterRunOnErrorStays(v, error, position) ==
    IF error = "FailedAgentBusCall" THEN [v EXCEPT !.sleep = 5]
    ELSE IF error = "UnknownPayloadType" THEN v
    ELSE [v EXCEPT !.sleep = 5]

\* the arms of run for an error of poll_and_vote
VoterRunOnError(v, error, position) ==
    IF error = "FailedAgentBusCall" THEN [v EXCEPT !.sleep = 5]
    ELSE IF error = "UnknownPayloadType" THEN [v EXCEPT !.next_log_position = position + 1]
    ELSE [v EXCEPT !.sleep = 5]

\* Voter::process_entry up to the propose of the vote
VoterProcessEntry(v, entry) ==
    IF entry.payload.kind = "Intention"
    THEN [voter |-> v, vote |-> vote(v, entry.log_position), votes |-> TRUE, error |-> "none"]
    ELSE IF entry.payload.kind = "VoterPolicy"
    THEN [voter |-> IF entry.payload.val # ""
                    THEN [v EXCEPT !.prompt_override = entry.payload.val] ELSE v,
          vote |-> EmptyPayload, votes |-> FALSE, error |-> "none"]
    ELSE [voter |-> v, vote |-> EmptyPayload, votes |-> FALSE, error |-> "UnknownPayloadType"]

\* a bus that injects up to budget failures
FaultyNew(filtering, budget) ==
    [filtering |-> filtering, spawned |-> <<>>, fate |-> "none", budget |-> budget]

outsideVoter == <<spaces, chan, reply, call, okCount, firstWritten, woVars, decider,
                  workers, tracker, now, stop, sim, last_call>>

\* the entries of the log that the Voter did not append
VoterClientCount == Cardinality({i \in 1..Len(Log) : ~Log[i].llm.some})

\* a client appends an entry to the log
VoterClientPropose(pl) ==
    /\ VoterClientCount < MaxVoterEntries
    /\ buses' = MemPropose(buses, BusD, pl).buses
    /\ UNCHANGED <<voter, backendAlive, fault, outsideVoter>>

\* the bus becomes unreachable: its calls fail until it is back
VoterBusDown ==
    /\ backendAlive
    /\ fault.budget > 0
    /\ backendAlive' = FALSE
    /\ fault' = [fault EXCEPT !.budget = @ - 1]
    /\ UNCHANGED <<buses, voter, outsideVoter>>

VoterBusUp ==
    /\ ~backendAlive
    /\ backendAlive' = TRUE
    /\ UNCHANGED <<buses, voter, fault, outsideVoter>>

\* run: the poll of poll_and_vote; with no entry, the sleep of poll_interval
VoterPoll ==
    /\ voter.sleep = 0
    /\ ~voter.in_pass
    /\ IF ~backendAlive
       THEN voter' = VoterRunOnError(voter, "FailedAgentBusCall", -1)
       ELSE LET response ==
                    MemPoll(buses, PollRequest(BusD, voter.next_log_position, 1,
                                               IF fault.filtering THEN VoterFilter
                                               ELSE NoFilter)) IN
            voter' = IF response.entries = <<>> THEN [voter EXCEPT !.sleep = 1]
                     ELSE [voter EXCEPT !.batch = response.entries, !.in_pass = TRUE]
    /\ UNCHANGED <<buses, backendAlive, fault, outsideVoter>>

\* the sleep of run is over
VoterWake ==
    /\ voter.sleep > 0
    /\ voter' = [voter EXCEPT !.sleep = 0]
    /\ UNCHANGED <<buses, backendAlive, fault, outsideVoter>>

\* run: process_entry on the entry polled, with the fate of the vote's propose
VoterProcess(fate) ==
    /\ voter.in_pass
    /\ LET entry == Head(voter.batch)
           r == VoterProcessEntry(voter, entry)
           p == FaultPropose(buses, backendAlive, fault.spawned, fate, BusD, r.vote)
           polled == [r.voter EXCEPT !.batch = <<>>, !.in_pass = FALSE]
           done == [polled EXCEPT !.next_log_position = entry.log_position + 1] IN
       IF r.error # "none"
       THEN /\ fate = "Success"
            /\ voter' = VoterRunOnError(polled, r.error, entry.log_position)
            /\ UNCHANGED <<buses, fault>>
       ELSE IF r.votes
       THEN /\ fate # "Success" => fault.budget > 0
            /\ buses' = p.buses
            /\ fault' = [fault EXCEPT !.spawned = p.spawned, !.fate = fate,
                                      !.budget = IF fate = "Success" THEN @ ELSE @ - 1]
            /\ voter' = IF p.ok THEN done
                        ELSE VoterRunOnError(polled, "FailedAgentBusCall", -1)
       ELSE /\ fate = "Success"
            /\ voter' = done
            /\ UNCHANGED <<buses, fault>>
    /\ UNCHANGED <<backendAlive, outsideVoter>>

\* a forward spawned by ErrorThenCommit runs
VoterForward(i) ==
    /\ i \in 1..Len(fault.spawned)
    /\ buses' = InnerPropose(buses, backendAlive, fault.spawned[i].bus_id,
                             fault.spawned[i].payload).buses
    /\ fault' = [fault EXCEPT !.spawned = RemoveAt(fault.spawned, i)]
    /\ UNCHANGED <<voter, backendAlive, outsideVoter>>

\* either a bus that can fail with a Voter in placeholder mode or with an evaluator
\* that fails, or a bus that does not fail with any evaluator
InitVoter ==
    /\ WoNew /\ SimUnused /\ SeqUnused
    /\ buses = NoBuses /\ decider = DeciderIdle
    /\ workers = <<>> /\ tracker = TrackerNew /\ now = 0 /\ stop = FALSE
    /\ \/ /\ \E filtering \in BOOLEAN : fault = FaultyNew(filtering, MaxVoterFaults)
          /\ voter \in {LlmVoterNew(NoLlmClient), LlmVoterNew(LlmClient(TRUE, <<>>))}
       \/ /\ fault = FaultyNew(TRUE, 0)
          /\ \E response \in Responses : voter = LlmVoterNew(LlmClient(FALSE, response))

NextVoter ==
    \/ \E pl \in VoterPayloads : VoterClientPropose(pl)
    \/ VoterBusDown
    \/ VoterBusUp
    \/ VoterPoll
    \/ VoterWake
    \/ \E fate \in Fates : VoterProcess(fate)
    \/ \E i \in 1..MaxVoterFaults : VoterForward(i)

SpecVoter == InitVoter /\ [][NextVoter]_vars

\* the Voter's run under a scheduler that lets every task that can run go on
SpecVoterLive ==
    /\ SpecVoter
    /\ WF_vars(VoterBusUp)
    /\ WF_vars(VoterPoll)
    /\ WF_vars(VoterWake)
    /\ WF_vars(\E fate \in Fates : VoterProcess(fate))

(***************************************************************************)
(* The Voter's claims (SpecVoterLive, SpecVoter)                           *)
(***************************************************************************)
\* this step is a step of the Voter's run
VoterSteps == voter' # voter
\* the entry the Voter is about to process
VoterHead == Head(voter.batch)
VoterHeadIsIntention == voter.in_pass /\ VoterHead.payload.kind = "Intention"
VoterHeadIsUnknown ==
    voter.in_pass /\ VoterHead.payload.kind \notin {"Intention", "VoterPolicy"}
\* the log holds a vote of the Voter on the intention at p
VotedOn(p) ==
    \E i \in 1..Len(Log) : Log[i].kind = "Vote" /\ Log[i].llm.some /\ Log[i].ref = p
\* an intention of the log has no vote of the Voter
Unvoted == \E i \in 1..Len(Log) : Log[i].kind = "Intention" /\ ~VotedOn(i - 1)

\* C25: Voter.run does not end on an error.  After a failed poll or a failed
\* propose of its vote it sleeps 5 x poll_interval, and it polls again only when the
\* sleep is over, from the same next_log_position; after an entry at p whose payload
\* it does not know it goes on at once from p + 1; and every intention of the log
\* gets its vote in the end, whatever failed before.
C25_VoterSurvivesErrors ==
    /\ [](voter.result = "running")
    /\ [][(VoterSteps /\ voter.sleep = 0 /\ ~voter.in_pass /\ ~backendAlive) =>
             /\ voter'.sleep = 5
             /\ voter'.next_log_position = voter.next_log_position
             /\ ~voter'.in_pass]_vars
    /\ [][(VoterSteps /\ VoterHeadIsIntention
                      /\ (fault'.fate # "Success" \/ ~backendAlive)) =>
             /\ voter'.sleep = 5
             /\ voter'.next_log_position = voter.next_log_position
             /\ ~voter'.in_pass]_vars
    /\ [][(VoterSteps /\ voter.sleep > 0) => voter' = [voter EXCEPT !.sleep = 0]]_vars
    /\ [][(VoterSteps /\ VoterHeadIsUnknown) =>
             /\ voter'.next_log_position = VoterHead.log_position + 1
             /\ voter'.sleep = 0
             /\ ~voter'.in_pass
             /\ buses' = buses]_vars
    /\ []<>(~Unvoted)

\* after a failure of the bus, the Voter has gone past an entry it does not know and
\* has voted on an intention behind it
C25_Witness ==
    /\ ~fault.filtering
    /\ fault.budget < MaxVoterFaults
    /\ \E i, j \in 1..Len(Log) :
          /\ i < j
          /\ Log[i].kind \in {"Control", "Empty"}
          /\ Log[j].kind = "Intention"
          /\ VotedOn(j - 1)
          /\ voter.next_log_position >= j

\* the Voter sleeps 5 x poll_interval after its vote got the fate Lost
C25_WitnessBackoff ==
    /\ voter.sleep = 5
    /\ fault.fate = "Lost"
    /\ Unvoted

\* the votes of the Voter in the log
VoterVotes == {i \in 1..Len(Log) : Log[i].kind = "Vote" /\ Log[i].llm.some}
\* the evaluator's response holds the three pieces <safe>, true, </safe> in a row
ContainsSafeTrue(response) ==
    \E i \in 1..(Len(response) - 2) :
        response[i] = "<safe>" /\ response[i + 1] = "true" /\ response[i + 2] = "</safe>"
\* between the first <safe> of the response and the first </safe> behind it there is, apart
\* from white space, the one word true in upper or lower case
FirstTagApproves(response) ==
    \E i, j \in 1..Len(response) :
        /\ i < j
        /\ response[i] = "<safe>" /\ \A m \in 1..(i - 1) : response[m] # "<safe>"
        /\ response[j] = "</safe>" /\ \A m \in (i + 1)..(j - 1) : response[m] # "</safe>"
        /\ \E k \in (i + 1)..(j - 1) :
              /\ response[k] \in {"true", "TRUE"}
              /\ \A m \in ((i + 1)..(j - 1)) \ {k} : response[m] = " "

\* C26 as stated: a Voter with an LLM client votes true only when the response contains
\* <safe>true</safe>, and votes false, with the intention's position as intention_id,
\* whenever the evaluator fails or the response has no such tag.
C26_TrueOnlyOnLiteralTag ==
    voter.llm_client.some =>
        \A i \in VoterVotes :
            /\ Log[i].ref < i - 1 /\ Log[Log[i].ref + 1].kind = "Intention"
            /\ (voter.llm_client.fails \/ ~ContainsSafeTrue(voter.llm_client.response))
                  => Log[i].val = "false"
            /\ Log[i].val = "true" => ContainsSafeTrue(voter.llm_client.response)

\* C26, amended: a Voter with an LLM client is fail-closed.  Each vote it appends
\* carries the position of an intention as intention_id and is BooleanVote(true) or
\* BooleanVote(false); it is true exactly when the evaluator answered and the text
\* between the first <safe> of the answer and the first </safe> behind it is, white
\* space at its ends and the case of its letters aside, the word true; when the call
\* fails, a tag is missing or the content is anything else, the vote is false.
C26_FailClosed ==
    voter.llm_client.some =>
        \A i \in VoterVotes :
            /\ Log[i].ref < i - 1 /\ Log[Log[i].ref + 1].kind = "Intention"
            /\ Log[i].val \in {"true", "false"}
            /\ Log[i].val = "true" <=>
                  (~voter.llm_client.fails /\ FirstTagApproves(voter.llm_client.response))

\* the Voter has voted false on an answer that opens a <safe> tag with true in it and
\* does not close it
C26_Witness ==
    /\ voter.llm_client.some /\ ~voter.llm_client.fails
    /\ Find(voter.llm_client.response, 1, "<safe>") > 0
    /\ Find(voter.llm_client.response, 1, "true") > 0
    /\ Find(voter.llm_client.response, 1, "</safe>") = 0
    /\ \E i \in VoterVotes : Log[i].val = "false"

\* the Voter has voted false because the evaluator failed
C26_WitnessLlmFails ==
    /\ voter.llm_client.some /\ voter.llm_client.fails
    /\ \E i \in VoterVotes : Log[i].val = "false"

\* the Voter has voted true on an answer without the pieces <safe>, true, </safe> in a row
C26_WitnessLenient ==
    /\ voter.llm_client.some
    /\ ~ContainsSafeTrue(voter.llm_client.response)
    /\ \E i \in VoterVotes : Log[i].val = "true"

\* the Voter has voted false on an answer that contains <safe>true</safe> behind
\* another <safe>
C26_WitnessSecondTag ==
    /\ voter.llm_client.some
    /\ ContainsSafeTrue(voter.llm_client.response)
    /\ \E i \in VoterVotes : Log[i].val = "false"

(***************************************************************************)
(* The permutations workload over FaultInjectingAgentBus                   *)
(* (tests/src/scenarios/failure_injection_scenarios.rs): client 1 proposes *)
(* "a" and then "b", client 2 proposes "c", every propose draws a fate.    *)
(* fault.next holds what each client has left to propose, fault.calls the  *)
(* fate and the result of every propose made.                              *)
(***************************************************************************)
PermValues == {"a", "b", "c"}
PermClients == {1, 2}
\* the requests of the two client tasks, in the order of their calls
PermProgram == <<(<<"a", "b">>), (<<"c">>)>>
\* the polls made through the injector
PermPollRequests ==
    {PollRequest(BusD, start, max, NoFilter) : start \in {0, 1}, max \in {1, 100}}

NoCall == [fate |-> "none", ok |-> FALSE, log_position |-> -1]

\* A poll through the injector that starts one entry late.
FaultPollShifted(bs, rq) == MemPoll(bs, [rq EXCEPT !.start_log_position = @ + 1])

\* FaultInjectingAgentBus::poll
FaultPoll(bs, rq) == MemPoll(bs, rq)

outsidePerm == <<spaces, chan, backendAlive, reply, call, okCount, firstWritten, woVars,
                 decider, linVars, sim>>

\* a client task makes its next propose through the injector, which draws the fate
PermPropose(c, fate) ==
    /\ fault.next[c] # <<>>
    /\ LET value == Head(fault.next[c])
           p == FaultPropose(buses, TRUE, fault.spawned, fate, BusD, Intention(value)) IN
       /\ buses' = p.buses
       /\ fault' = [fault EXCEPT
                       !.next[c] = Tail(@),
                       !.spawned = p.spawned,
                       !.calls[value] = [fate |-> fate, ok |-> p.ok,
                                         log_position |-> p.log_position]]
    /\ UNCHANGED <<last_call, outsidePerm>>

\* the background task of an ErrorThenCommit forwards its request
PermForward(i) ==
    /\ i \in 1..Len(fault.spawned)
    /\ buses' = InnerPropose(buses, TRUE, fault.spawned[i].bus_id,
                             fault.spawned[i].payload).buses
    /\ fault' = [fault EXCEPT !.spawned = RemoveAt(fault.spawned, i)]
    /\ UNCHANGED <<last_call, outsidePerm>>

\* a poll through the injector
PermPoll(rq) ==
    /\ last_call' = [op |-> "poll", request |-> rq, response |-> FaultPoll(buses, rq)]
    /\ UNCHANGED <<buses, fault, outsidePerm>>

InitPerm ==
    /\ WoNew /\ LinUnused /\ SimUnused /\ SeqUnused
    /\ buses = NoBuses /\ decider = DeciderIdle
    /\ fault = [next |-> PermProgram, spawned |-> <<>>,
                calls |-> [v \in PermValues |-> NoCall]]

NextPerm ==
    \/ \E c \in PermClients, fate \in Fates : PermPropose(c, fate)
    \/ \E i \in 1..Cardinality(PermValues) : PermForward(i)
    \/ \E rq \in PermPollRequests : PermPoll(rq)

SpecPerm == InitPerm /\ [][NextPerm]_vars

(***************************************************************************)
(* The counter workload with skip_commits over ChainedAgentBus             *)
(* (tests/src/impls/chained_agentbus.rs): buses holds the two replicas,    *)
(* every propose writes to the first and then to the second with a sleep   *)
(* before each write, and fault.mode is the ChainedMode.  The fixture's    *)
(* bus has client_id 0 and worker i gets the i-th clone, client_id i.      *)
(***************************************************************************)
ChainedModes == {"Correct", "BuggyPoll"}
Replicas == <<1, 2>>
\* SharedState::new: two logs without a bus
ChainNew == [r \in DOMAIN Replicas |-> NoBuses]
\* the replica's log of the workload's bus
ReplicaLog(r) == IF BusD \in DOMAIN buses[r] THEN buses[r][BusD] ELSE <<>>

\* the worker's counter and its clone of the bus; write_to is the replica the
\* propose under way writes next
ChainWorkerNew(client_id, max_poll_entries) ==
    WorkerNew(max_poll_entries) @@ [client_id |-> client_id, write_to |-> 0]

\* poll_correct reads the last replica, poll_own_bus the replica client_id % 2
ChainPollBus(mode, client_id) ==
    IF mode = "Correct" THEN Len(Replicas) ELSE (client_id % 2) + 1

\* A counter that applies only the worker's own operation.
process_entry_skip_commitsOwnOnly(w, entry, my_intention_id) ==
    LET pl == entry.payload IN
    IF pl.kind = "Intention" /\ NeedsCommit(pl.text) /\ entry.log_position = my_intention_id
    THEN LET w1 == apply_operation(w, entry.log_position, pl.text) IN
         [worker |-> w1, result |-> FoundMyOp(w1.value)]
    ELSE [worker |-> w, result |-> Continue]

\* AgentBusCounter::process_entry_skip_commits
process_entry_skip_commits(w, entry, my_intention_id) ==
    LET pl == entry.payload IN
    IF pl.kind = "Intention" /\ NeedsCommit(pl.text)
    THEN LET w1 == apply_operation(w, entry.log_position, pl.text) IN
         [worker |-> w1,
          result |-> IF entry.log_position = my_intention_id THEN FoundMyOp(w1.value)
                     ELSE Continue]
    ELSE [worker |-> w, result |-> Continue]

RECURSIVE ProcessBatchSkip(_, _, _, _)
\* the loop of poll_and_process with skip_commits
ProcessBatchSkip(w, entries, my_intention_id, result) ==
    IF entries = <<>> THEN [worker |-> w, result |-> result]
    ELSE LET entry == Head(entries)
             r == process_entry_skip_commits(
                      [w EXCEPT !.next_log_position = entry.log_position + 1],
                      entry, my_intention_id) IN
         ProcessBatchSkip(r.worker, Tail(entries), my_intention_id,
                          IF r.result.tag = "Continue" THEN result ELSE r.result)

\* AgentBusCounter::poll_and_process over the worker's clone of the chained bus
ChainPollAndProcess(w, bs, mode) ==
    LET response == MemPoll(bs[ChainPollBus(mode, w.client_id)],
                            PollRequest(BusD, w.next_log_position, w.max_poll_entries,
                                        NoFilter)) IN
    ProcessBatchSkip(w, response.entries, w.my_id, Continue)

outsideChain == <<spaceVars, call, okCount, firstWritten, woVars, decider, stop, voter, sim,
                  last_call>>

\* TrackingCounter::increment / decrement: read the clock and enter propose_with_delays
ChainStart(i, op) ==
    /\ workers[i].phase = "idle" /\ workers[i].ops_left > 0
    /\ now' = now + 1
    /\ workers' = [workers EXCEPT ![i].phase = "proposing", ![i].op = op,
                                  ![i].start_time = now + 1, ![i].write_to = 1]
    /\ UNCHANGED <<buses, tracker, fault, outsideChain>>

\* propose_with_delays: after its sleep the next replica is written; the response of
\* the last replica is the propose's response
ChainWrite(i) ==
    /\ workers[i].phase = "proposing"
    /\ LET r == workers[i].write_to
           p == MemPropose(buses[r], BusD, Intention(workers[i].op)) IN
       /\ buses' = [buses EXCEPT ![r] = p.buses]
       /\ workers' = IF r = Len(Replicas)
                     THEN [workers EXCEPT ![i].phase = "waiting", ![i].write_to = 0,
                                          ![i].my_id = p.log_position]
                     ELSE [workers EXCEPT ![i].write_to = r + 1]
    /\ UNCHANGED <<tracker, now, fault, outsideChain>>

\* one round of the execute_op loop of an increment or decrement
ChainPoll(i) ==
    /\ workers[i].phase = "waiting" /\ workers[i].op # "noop"
    /\ LET r == ChainPollAndProcess(workers[i], buses, fault.mode) IN
       IF r.result.tag = "FoundMyOp"
       THEN /\ now' = now + 1
            /\ workers' = [workers EXCEPT ![i] = AfterOp(r.worker)]
            /\ tracker' =
                 [results |-> [q \in DOMAIN tracker.results \cup {r.worker.my_id} |->
                                  IF q = r.worker.my_id THEN r.result.value
                                  ELSE tracker.results[q]],
                  timestamps |-> Append(tracker.timestamps,
                                        [intention_id |-> r.worker.my_id,
                                         start_time |-> r.worker.start_time,
                                         end_time |-> now + 1])]
       ELSE /\ workers' = [workers EXCEPT ![i] = r.worker]
            /\ UNCHANGED <<tracker, now>>
    /\ UNCHANGED <<buses, fault, outsideChain>>

\* the barrier opens; get_command_history enters the propose of its noop
ChainPassBarrier(i) ==
    /\ workers[i].phase = "barrier"
    /\ \A j \in Workers : workers[j].ops_left = 0
    /\ workers' = [workers EXCEPT ![i].phase = "proposing", ![i].op = "noop",
                                  ![i].write_to = 1]
    /\ UNCHANGED <<buses, tracker, now, fault, outsideChain>>

\* one round of the execute_op loop of the noop; when it returns the worker hands out
\* its command history
ChainNoopPoll(i) ==
    /\ workers[i].phase = "waiting" /\ workers[i].op = "noop"
    /\ IF NoopReturns(workers[i])
       THEN workers' = [workers EXCEPT ![i].phase = "done",
                                       ![i].returned_history = workers[i].command_history]
       ELSE workers' = [workers EXCEPT
                           ![i] = ChainPollAndProcess(workers[i], buses, fault.mode).worker]
    /\ UNCHANGED <<buses, tracker, now, fault, outsideChain>>

InitChain ==
    /\ WoNew /\ SimUnused /\ SeqUnused
    /\ decider = DeciderIdle /\ stop = FALSE /\ voter = VoterNew
    /\ buses = ChainNew
    /\ \E mode \in ChainedModes : fault = [mode |-> mode]
    /\ \E m \in WorkerPollSizes : workers = [i \in Workers |-> ChainWorkerNew(i, m)]
    /\ tracker = TrackerNew
    /\ now = 0

NextChain ==
    \/ \E i \in Workers, op \in {"inc", "dec"} : ChainStart(i, op)
    \/ \E i \in Workers : ChainWrite(i)
    \/ \E i \in Workers : ChainPoll(i)
    \/ \E i \in Workers : ChainPassBarrier(i)
    \/ \E i \in Workers : ChainNoopPoll(i)

SpecChain == InitChain /\ [][NextChain]_vars

(***************************************************************************)
(* The fault injector's claims (SpecPerm)                                  *)
(***************************************************************************)
\* the positions of the log that hold the intention with this value
PlacesOf(value) == {i \in 1..Len(Log) : Log[i] = Intention(value)}
\* a background task still holds the request with this value
Pending(value) ==
    \E i \in 1..Len(fault.spawned) : fault.spawned[i].payload = Intention(value)
\* this step is the propose of this value with this fate
Proposes(value, fate) ==
    fault.calls[value].fate = "none" /\ fault'.calls[value].fate = fate

\* what the fate of each propose made so far means for its result and for the log
C27_FateFixesLog ==
    \A value \in PermValues :
        LET c == fault.calls[value] IN
        /\ Cardinality(PlacesOf(value)) <= 1
        /\ c.fate = "none" => PlacesOf(value) = {} /\ ~Pending(value)
        /\ c.fate = "Success" =>
              c.ok /\ PlacesOf(value) = {c.log_position + 1} /\ ~Pending(value)
        /\ c.fate = "Lost" => ~c.ok /\ PlacesOf(value) = {} /\ ~Pending(value)
        /\ c.fate = "CommitThenError" =>
              ~c.ok /\ Cardinality(PlacesOf(value)) = 1 /\ ~Pending(value)
        /\ c.fate = "ErrorThenCommit" =>
              ~c.ok /\ (Pending(value) <=> PlacesOf(value) = {})

\* C27: the fate drawn for a propose through FaultInjectingAgentBus fixes the caller's
\* result and what the inner log holds in the end.  Success returns the inner bus's
\* position and the entry is in the log at it; Lost returns an error and the entry
\* never gets into the log; CommitThenError returns an error with the entry
\* appended; ErrorThenCommit returns an error with the log as it was and the entry
\* gets into the log when its background task runs; no request is in the log twice;
\* and a poll returns what the inner bus answers to the same request, changing nothing.
C27_FateDecidesOutcome ==
    /\ []C27_FateFixesLog
    /\ [][\A value \in PermValues :
             /\ Proposes(value, "Success") => Log' = Append(Log, Intention(value))
             /\ Proposes(value, "Lost") => Log' = Log /\ fault'.spawned = fault.spawned
             /\ Proposes(value, "CommitThenError") => Log' = Append(Log, Intention(value))
             /\ Proposes(value, "ErrorThenCommit") =>
                   /\ Log' = Log
                   /\ fault'.spawned = Append(fault.spawned,
                                              [bus_id |-> BusD,
                                               payload |-> Intention(value)])]_vars
    /\ [][Len(fault'.spawned) < Len(fault.spawned) =>
             \E i \in 1..Len(fault.spawned) :
                 /\ Log' = Append(Log, fault.spawned[i].payload)
                 /\ fault'.spawned = RemoveAt(fault.spawned, i)]_vars
    /\ [][last_call' # last_call =>
             /\ last_call'.response = MemPoll(buses, last_call'.request)
             /\ buses' = buses /\ fault' = fault]_vars

\* the three proposes drew Lost, CommitThenError and ErrorThenCommit, the background
\* task has run, and a poll has returned the two entries of the log
C27_Witness ==
    /\ fault.calls["a"].fate = "Lost"
    /\ fault.calls["b"].fate = "CommitThenError"
    /\ fault.calls["c"].fate = "ErrorThenCommit"
    /\ fault.spawned = <<>>
    /\ Len(Log) = 2
    /\ last_call # <<>> /\ Len(last_call.response.entries) = 2

\* a propose drew ErrorThenCommit and returned while its request is still with the
\* background task, and a later propose drew Success
C27_WitnessPending ==
    /\ fault.calls["a"].fate = "ErrorThenCommit" /\ Pending("a")
    /\ fault.calls["b"].fate = "Success" /\ fault.calls["b"].ok

\* the intentions of the log, in order
Outcome == [i \in 1..Len(Log) |-> Log[i].text]
EXPECTED_OUTCOMES ==
    {<<>>, <<"a">>, <<"b">>, <<"c">>,
     <<"a", "b">>, <<"a", "c">>, <<"b", "a">>, <<"b", "c">>, <<"c", "a">>, <<"c", "b">>,
     <<"a", "b", "c">>, <<"a", "c", "b">>, <<"b", "a", "c">>, <<"b", "c", "a">>,
     <<"c", "a", "b">>, <<"c", "b", "a">>}
\* env.run() has returned: both clients are through and no background task is left
PermDone == fault.next = <<(<<>>), (<<>>)>> /\ fault.spawned = <<>>

\* C28: in the workload of "a" then "b" by client 1 and "c" by client 2 through a
\* fault injector with every fate possible, the intentions of the log form one of the
\* 16 expected strings, at the end and at every moment before it, each value at
\* most once.
C28_OutcomeExpected ==
    /\ \A i \in 1..Len(Log) : Log[i].kind = "Intention"
    /\ Outcome \in EXPECTED_OUTCOMES
    /\ \A i, j \in 1..Len(Log) : Outcome[i] = Outcome[j] => i = j

\* each of the 16 outcomes is the log's content at the end of a run
C28_Witness == PermDone /\ Outcome = <<"b", "c", "a">>
C28_WitnessEmpty == PermDone /\ Outcome = <<>>
C28_WitnessA == PermDone /\ Outcome = <<"a">>
C28_WitnessB == PermDone /\ Outcome = <<"b">>
C28_WitnessC == PermDone /\ Outcome = <<"c">>
C28_WitnessAB == PermDone /\ Outcome = <<"a", "b">>
C28_WitnessAC == PermDone /\ Outcome = <<"a", "c">>
C28_WitnessBA == PermDone /\ Outcome = <<"b", "a">>
C28_WitnessBC == PermDone /\ Outcome = <<"b", "c">>
C28_WitnessCA == PermDone /\ Outcome = <<"c", "a">>
C28_WitnessCB == PermDone /\ Outcome = <<"c", "b">>
C28_WitnessABC == PermDone /\ Outcome = <<"a", "b", "c">>
C28_WitnessACB == PermDone /\ Outcome = <<"a", "c", "b">>
C28_WitnessBAC == PermDone /\ Outcome = <<"b", "a", "c">>
C28_WitnessCAB == PermDone /\ Outcome = <<"c", "a", "b">>
C28_WitnessCBA == PermDone /\ Outcome = <<"c", "b", "a">>

(***************************************************************************)
(* The chained log's claim (SpecChain)                                     *)
(***************************************************************************)
\* LinearizabilityTracker.verify returns an error on what the workload hands it
VerifyFails == AllWorkersDone /\ ~verify(tracker, WorkerHistories)
\* the replicas hold the appends in different orders
ReplicasDiffer == ReplicaLog(1) # ReplicaLog(2)

\* C29: over the chained log, where every append is written to both replicas with
\* sleeps in between and propose returns the last replica's position, the
\* skip-commits counter workload makes LinearizabilityTracker.verify return an error
\* only in BuggyPoll mode, where each worker polls the replica client_id mod 2, and
\* only when the two replicas hold the appends in different orders; such a run exists.
C29_ErrorOnlyFromBuggyPoll ==
    VerifyFails => fault.mode = "BuggyPoll" /\ ReplicasDiffer

\* in BuggyPoll mode both workers have handed out their histories and verify returns
\* an error
C29_Witness ==
    /\ fault.mode = "BuggyPoll"
    /\ VerifyFails

\* the error is that the two workers' histories differ
C29_WitnessHistories ==
    /\ fault.mode = "BuggyPoll"
    /\ AllWorkersDone
    /\ ~verify_consistent_histories(WorkerHistories, WorkerHistories[1])

\* in Correct mode the replicas differ as well, and verify returns Ok
C29_WitnessCorrect ==
    /\ fault.mode = "Correct"
    /\ AllWorkersDone /\ ReplicasDiffer
    /\ verify(tracker, WorkerHistories)

(***************************************************************************)
(* LinearizabilityTracker on its own                                       *)
(* (tests/src/scenarios/lin_test/linearizability_tracker.rs): results and  *)
(* timestamps are recorded, then verify is called with the workers'        *)
(* histories; last_call keeps the histories and whether verify returned    *)
(* Ok.  A verify that does not return Ok returns an error or panics on an  *)
(* expect.                                                                 *)
(***************************************************************************)
MaxCommandId == 1      \* intention ids 0..MaxCommandId
MaxHistoryLen == 2     \* commands of a worker's history
MaxTimestamps == 2     \* timestamps recorded
MaxTime == 4           \* instants 1..MaxTime

CommandIds == 0..MaxCommandId
Commands == {ExecutedCommand(id, op) : id \in CommandIds, op \in {"inc", "dec"}}
Histories == SeqsUpTo(Commands, MaxHistoryLen)
\* the values a worker can have recorded
ResultValues == 0..MaxHistoryLen
OperationTimestamps ==
    {[intention_id |-> id, start_time |-> s, end_time |-> e] :
        id \in CommandIds, s \in 1..MaxTime, e \in 1..MaxTime}
\* an operation ends after it started, or runs across the whole test
TimestampInputs ==
    {ts \in OperationTimestamps :
        ts.end_time = ts.start_time + 1 \/ (ts.start_time = 1 /\ ts.end_time = MaxTime)}

outsideVerify == <<spaceVars, call, okCount, firstWritten, woVars, decVars, workers, now, stop,
                   voter, sim, fault>>

\* LinearizabilityTracker::record_result
record_result(intention_id, value) ==
    /\ last_call = <<>>
    /\ tracker' = [tracker EXCEPT !.results =
                      [q \in DOMAIN tracker.results \cup {intention_id} |->
                          IF q = intention_id THEN value ELSE tracker.results[q]]]
    /\ UNCHANGED <<last_call, outsideVerify>>

\* LinearizabilityTracker::record_timestamp
record_timestamp(timestamp) ==
    /\ last_call = <<>>
    /\ Len(tracker.timestamps) < MaxTimestamps
    /\ tracker' = [tracker EXCEPT !.timestamps = Append(@, timestamp)]
    /\ UNCHANGED <<last_call, outsideVerify>>

\* LinearizabilityTracker::verify with the replay closure of the counter, called once
\* when the workers have returned
Verify(worker_histories) ==
    /\ last_call = <<>>
    /\ last_call' = [op |-> "verify", worker_histories |-> worker_histories,
                     ok |-> verify(tracker, worker_histories)]
    /\ UNCHANGED <<tracker, outsideVerify>>

InitVerify ==
    /\ WoNew /\ DeciderUnused /\ SimUnused /\ SeqUnused /\ FaultUnused
    /\ workers = <<>> /\ now = 0 /\ stop = FALSE /\ voter = VoterNew
    /\ tracker = TrackerNew

NextVerify ==
    \/ \E id \in CommandIds, value \in ResultValues : record_result(id, value)
    \/ \E ts \in TimestampInputs : record_timestamp(ts)
    \/ \E h1 \in Histories : Verify(<<h1>>)
    \/ \E h1 \in Histories, h2 \in Histories : Verify(<<h1, h2>>)

SpecVerify == InitVerify /\ [][NextVerify]_vars

(***************************************************************************)
(* The tracker's claim (SpecVerify)                                        *)
(***************************************************************************)
\* every worker history equals the first one, element by element
HistoriesEqual(worker_histories) ==
    \A w \in DOMAIN worker_histories :
        /\ Len(worker_histories[w]) = Len(worker_histories[1])
        /\ \A k \in 1..Len(worker_histories[w]) :
               worker_histories[w][k] = worker_histories[1][k]
\* as many results are recorded as the history has commands
CountsEqual(h, results) == Cardinality(DOMAIN results) = Len(h)
\* the value of the sequential counter after the first k commands of the history
CounterAfter(h, k) ==
    Cardinality({m \in 1..k : h[m].operation = "inc"})
        - Cardinality({m \in 1..k : h[m].operation = "dec"})
\* the replay of the history gives each recorded result: the result's operation is in
\* the history, and wherever it is the counter has the recorded value after it
ReplayGivesEachResult(h, results) ==
    \A id \in DOMAIN results :
        /\ \E k \in 1..Len(h) : h[k].intention_id = id
        /\ \A k \in 1..Len(h) : h[k].intention_id = id => CounterAfter(h, k) = results[id]
\* the replay gives the recorded result of each command of the history that has one
ReplayGivesResultsOfHistory(h, results) ==
    \A k \in 1..Len(h) :
        h[k].intention_id \in DOMAIN results
            => CounterAfter(h, k) = results[h[k].intention_id]
\* a is earlier than b in the history, by the last place of each
Earlier(h, a, b) ==
    \E ka, kb \in 1..Len(h) :
        /\ ka < kb
        /\ h[ka].intention_id = a /\ \A m \in (ka + 1)..Len(h) : h[m].intention_id # a
        /\ h[kb].intention_id = b /\ \A m \in (kb + 1)..Len(h) : h[m].intention_id # b
\* an operation that ended before another started is earlier in the history
RealTimeOrder(h, timestamps) ==
    \A i, j \in 1..Len(timestamps) :
        (i # j /\ timestamps[i].end_time < timestamps[j].start_time)
            => Earlier(h, timestamps[i].intention_id, timestamps[j].intention_id)
\* this step is a call of verify
VerifyCalled == last_call' # last_call

\* C30: LinearizabilityTracker.verify returns Ok if and only if the four checks hold:
\* every worker history equals the first element by element, as many results are
\* recorded as the history is long, the replay of the history on a sequential counter
\* gives each recorded result, and of two timestamped operations the one that ended
\* before the other started is earlier in the history.
C30_VerifyIffFourChecks ==
    [][VerifyCalled =>
          (last_call'.ok <=>
              LET h == last_call'.worker_histories[1] IN
              /\ HistoriesEqual(last_call'.worker_histories)
              /\ CountsEqual(h, tracker.results)
              /\ ReplayGivesEachResult(h, tracker.results)
              /\ RealTimeOrder(h, tracker.timestamps))]_vars

\* verify returns Ok whenever the four checks hold
C30_FourChecksSuffice ==
    [][VerifyCalled =>
          ((LET h == last_call'.worker_histories[1] IN
            /\ HistoriesEqual(last_call'.worker_histories)
            /\ CountsEqual(h, tracker.results)
            /\ ReplayGivesEachResult(h, tracker.results)
            /\ RealTimeOrder(h, tracker.timestamps)) => last_call'.ok)]_vars

\* verify returns Ok exactly when the checks hold with the replay compared on the
\* commands of the history only
C30_VerifyIffChecksOnHistory ==
    [][VerifyCalled =>
          (last_call'.ok <=>
              LET h == last_call'.worker_histories[1] IN
              /\ HistoriesEqual(last_call'.worker_histories)
              /\ CountsEqual(h, tracker.results)
              /\ ReplayGivesResultsOfHistory(h, tracker.results)
              /\ RealTimeOrder(h, tracker.timestamps))]_vars

\* verify has returned Ok with a recorded result whose operation is not in the history
C30_WitnessUnexplained ==
    /\ last_call # <<>> /\ last_call.ok
    /\ \E id \in DOMAIN tracker.results :
          \A k \in 1..Len(last_call.worker_histories[1]) :
              last_call.worker_histories[1][k].intention_id # id

\* verify has returned Ok on two equal histories of two commands with two timestamps
\* that overlap
C30_WitnessOk ==
    /\ last_call # <<>> /\ last_call.ok
    /\ Len(last_call.worker_histories) = 2 /\ Len(last_call.worker_histories[1]) = 2
    /\ Len(tracker.timestamps) = 2

(***************************************************************************)
(* One Simulator whose tasks talk over oneshot channels, sleep, give way    *)
(* and advance the clock, run by DeterministicExecutor::run again and      *)
(* again.  The generator is left open: every jitter of the distribution    *)
(* and every event index may be drawn.  Between two runs the code that     *)
(* owns the Simulator may send on a channel.  Times are in microseconds.   *)
(***************************************************************************)
MaxRuns == 2           \* calls of Simulator::run
SleepFor == 3          \* the duration of the sleeps requested before run
MaxEvents == 3         \* event indices 0..MaxEvents-1 are drawn
\* a sleep that as many events as the iteration cap allows do not reach
LongSleep == 3 * MAX_ITERATIONS

\* the jitter distributions: Uniform::new(0, 1) and one whose least value is 1
ExecJitters == {Uniform(0, 1), Uniform(1, 3)}
\* the values Uniform::sample can give
JitterValues(distribution) == distribution.low..(distribution.high - 1)

\* what is built before run: plain oneshot channels, then the sleeps requested (each
\* with the channel its future awaits), then the spawned tasks
Graph(channels, sleeps, tasks) == [channels |-> channels, sleeps |-> sleeps, tasks |-> tasks]
ExecGraphs ==
    {Graph(0, <<SleepFor>>, <<8>>),
     Graph(0, <<SleepFor>>, <<8, 9>>),
     Graph(0, <<LongSleep>>, <<8, 9>>),
     Graph(0, <<SleepFor>>, <<8, 14>>),
     Graph(0, <<SleepFor - 1>>, <<8, 13>>),
     Graph(2, <<>>, <<5, 6, 7>>),
     Graph(3, <<>>, <<10, 11, 12>>),
     Graph(2, <<>>, <<8, 6, 11>>),
     Graph(1, <<>>, <<8>>)}

RECURSIVE MakeChannels(_, _)
\* oneshot::channel() n times
MakeChannels(s, n) ==
    IF n = 0 THEN s
    ELSE MakeChannels([s EXCEPT !.channels = Append(@, Oneshot(-1, -1))], n - 1)

RECURSIVE RequestSleeps(_, _)
\* Simulator::sleep for each duration
RequestSleeps(s, sleeps) ==
    IF sleeps = <<>> THEN s
    ELSE RequestSleeps(SimSleep(s, Head(sleeps)), Tail(sleeps))

\* the Simulator with a graph built on it
BuildGraph(s, graph) ==
    SpawnGraph(RequestSleeps(MakeChannels(s, graph.channels), graph.sleeps), graph.tasks)

outsideExec == <<spaceVars, call, okCount, firstWritten, woVars, decVars, linVars, fault>>

\* the sequences in a wake queue
WakesOf(s) == {s.wakes[k] : k \in DOMAIN s.wakes}
\* the tasks that are spawned and not finished, by sequence
Ready(s) == {s.events[k].sequence : k \in DOMAIN s.events}
Blocked(s) == {t.sequence : t \in s.blocked}
Unfinished(s) == Ready(s) \cup Blocked(s)
\* the task polled by the iteration that led to s (-1 when none was)
PolledIn(s) == IF s.trace = <<>> THEN -1 ELSE s.trace[1].sequence

\* Simulator::run is called: the iteration count starts at 0
ExecRun ==
    /\ sim[1].phase \in {"spawning", "finished"}
    /\ last_call.runs < MaxRuns
    /\ sim' = <<[sim[1] EXCEPT !.phase = "running", !.iterations = 0, !.trace = <<>>]>>
    /\ last_call' = [last_call EXCEPT !.runs = @ + 1]
    /\ UNCHANGED outsideExec

\* one iteration of run with a jitter and an event index drawn; a task woken in it is
\* owed a poll, the task polled in it is owed none; the wake queue it drained is kept
ExecIterate(jitter_us, event_index) ==
    /\ sim[1].phase = "running"
    /\ LET s == IterateDrawn([sim[1] EXCEPT !.trace = <<>>], jitter_us, event_index) IN
       /\ sim' = <<s>>
       /\ last_call' = [last_call EXCEPT
              !.owed = IF s.phase # "running" THEN @
                       ELSE (@ \ {PolledIn(s)}) \cup (WakesOf(s) \cap Unfinished(s)),
              !.drained = IF s.phase = "panicked" THEN @ ELSE sim[1].wakes]
    /\ UNCHANGED outsideExec

\* between two runs the owner of the Simulator sends on a channel
ExecSend(c) ==
    /\ sim[1].phase \in {"spawning", "finished"}
    /\ c \in DOMAIN sim[1].channels
    /\ sim[1].channels[c].duration = -1 /\ ~sim[1].channels[c].sent
    /\ LET s == OneshotSend(sim[1], c) IN
       /\ sim' = <<s>>
       /\ last_call' = [last_call EXCEPT !.owed = @ \cup (WakesOf(s) \cap Unfinished(s))]
    /\ UNCHANGED outsideExec

InitExec ==
    /\ WoNew /\ DeciderUnused /\ LinUnused /\ FaultUnused
    /\ \E jitter_distribution \in ExecJitters, graph \in ExecGraphs, origin \in Origins :
           sim = <<BuildGraph(SimulatorNew(0, jitter_distribution, origin), graph)>>
    /\ last_call = [owed |-> {}, runs |-> 0, drained |-> <<>>]

\* some iteration of run's loop
ExecStep ==
    \E jitter_us \in JitterValues(sim[1].jitter_distribution), event_index \in 0..(MaxEvents - 1) :
        ExecIterate(jitter_us, event_index)

NextExec ==
    \/ ExecRun
    \/ ExecStep
    \/ \E c \in 1..MaxEvents : ExecSend(c)

SpecExec == InitExec /\ [][NextExec]_vars

\* run is called and its loop goes on until it breaks or panics: weak fairness of
\* ExecRun and of ExecStep, the latter written out with its enabling condition, which is
\* that run is in its loop
SpecExecLive ==
    /\ InitExec
    /\ [][NextExec]_vars
    /\ WF_vars(ExecRun)
    /\ ([]<>(sim[1].phase # "running") \/ []<><<ExecStep>>_vars)

\* the channels made by Simulator::sleep
SleepChannels(s) == {c \in DOMAIN s.channels : s.channels[c].duration >= 0}

\* C31: a task that awaits the future of sleep(d), requested when the clock read t,
\* passes the await only at a clock reading of at least t + d, whatever the jitter
\* distribution (zero jitter included); as soon as the sleep has completed, and so when
\* run returns after it, the clock reads at least t + d.
C31_SleepNotEarly ==
    \A c \in SleepChannels(sim[1]) :
        LET ch == sim[1].channels[c] IN
        /\ ch.resumed # -1 => ch.sent /\ ch.resumed >= ch.requested + ch.duration
        /\ ch.sent => sim[1].current_time >= ch.requested + ch.duration

\* run has returned under zero jitter after a task passed the await of a sleep of a
\* positive duration
C31_Witness ==
    /\ sim[1].phase = "finished"
    /\ sim[1].jitter_distribution = Uniform(0, 1)
    /\ \E c \in SleepChannels(sim[1]) :
           sim[1].channels[c].duration > 0 /\ sim[1].channels[c].resumed # -1

\* under a jitter of at least 1 a sleeper was resumed later than the sleep was due, and
\* the sleep had been requested by a task during the run
C31_WitnessJitter ==
    /\ sim[1].phase = "finished"
    /\ sim[1].jitter_distribution.low >= 1
    /\ \E c \in SleepChannels(sim[1]) :
           LET ch == sim[1].channels[c] IN
           ch.requested > sim[1].origin /\ ch.resumed > ch.requested + ch.duration

\* the readings of the clock that the channels keep
Readings(s) ==
    UNION {{s.channels[c].requested, s.channels[c].resumed} : c \in DOMAIN s.channels} \ {-1}

\* C33: the logical clock never goes backward: no step of the scheduler, the run of a
\* sleep whose target time is already past included, lowers the clock, so every reading
\* taken earlier is at most the present one.
C33_ClockNeverBackward ==
    /\ [][sim'[1].current_time >= sim[1].current_time]_vars
    /\ [](\A t \in Readings(sim[1]) : t <= sim[1].current_time)

\* the task of a sleep has just been run at a clock reading later than its target time
\* (a task had advanced the clock past it), before its sleeper was polled again
C33_Witness ==
    /\ sim[1].phase = "running"
    /\ PolledIn(sim[1]) = 0
    /\ 1 \in SleepChannels(sim[1])
    /\ sim[1].channels[1].sent /\ sim[1].channels[1].resumed = -1
    /\ sim[1].current_time > sim[1].channels[1].requested + sim[1].channels[1].duration

\* the sequences of the tasks in the sleep heap
SleepSeqs(s) == {t.sequence : t \in s.sleeps}
ExecSequences == 0..5
\* the step is an iteration of run that polled a ready event
EventRan ==
    /\ sim[1].phase = "running" /\ sim'[1].phase = "running"
    /\ sim'[1].iterations = sim[1].iterations + 1
    /\ PolledIn(sim'[1]) \notin SleepSeqs(sim[1])
\* the jitter distribution's least value is at least 1 microsecond
JitterAtLeastOne == sim[1].jitter_distribution.low >= 1
\* one task that awaits one sleep requested before run, and nothing else
SingleSleeper(s) == s.next_sequence = 2 /\ SleepChannels(s) = {1}

C32_WitnessCapFirst ==
    /\ JitterAtLeastOne
    /\ sim[1].phase = "panicked"
    /\ sim[1].sleeps # {}

\* the single sleeper has finished under a jitter of at least 1
C32_WitnessSingle ==
    /\ JitterAtLeastOne
    /\ SingleSleeper(sim[1]) /\ sim[1].phase = "finished"
    /\ sim[1].channels[1].resumed >= sim[1].origin + SleepFor

\* how often a sequence is in the ready list
TimesReady(s, q) == Cardinality({k \in DOMAIN s.events : s.events[k].sequence = q})
\* the step is the return of run
RunReturns == sim[1].phase = "running" /\ sim'[1].phase = "finished"

\* C39: no wake-up is lost and none is duplicated.  A task that was woken while it was
\* being polled, parked in blocked or already ready, and is not finished, has been
\* polled again when run returns; a task is in the ready list at most once, however
\* many wakes of it were drained together, and no task is in two of the ready list,
\* blocked and the sleep heap.
C39_NoWakeLostOrDuplicated ==
    /\ [][RunReturns => last_call'.owed = {}]_vars
    /\ [](/\ \A q \in ExecSequences : TimesReady(sim[1], q) <= 1
          /\ Ready(sim[1]) \cap Blocked(sim[1]) = {}
          /\ SleepSeqs(sim[1]) \cap (Ready(sim[1]) \cup Blocked(sim[1])) = {})

\* an iteration drained two wakes of one parked task, which is in the ready list once
\* or was polled in that iteration
C39_Witness ==
    /\ sim[1].phase = "running"
    /\ \E i, j \in DOMAIN last_call.drained :
           /\ i # j /\ last_call.drained[i] = last_call.drained[j]
           /\ \/ TimesReady(sim[1], last_call.drained[i]) = 1
              \/ PolledIn(sim[1]) = last_call.drained[i]

\* a task woke itself while it was polled and is parked with the wake recorded
C39_WitnessWhilePolled ==
    /\ sim[1].phase = "running"
    /\ PolledIn(sim[1]) \in WakesOf(sim[1]) \cap Blocked(sim[1])

\* a wake is recorded for a task that is already in the ready list
C39_WitnessAlreadyReady ==
    /\ sim[1].phase = "running"
    /\ WakesOf(sim[1]) \cap Ready(sim[1]) # {}

\* run has returned after tasks were owed polls, all tasks done
C39_WitnessReturned ==
    /\ sim[1].phase = "finished" /\ last_call.owed = {}
    /\ Unfinished(sim[1]) = {}
    /\ Len(sim[1].channels) = 3 /\ \A c \in 1..3 : sim[1].channels[c].resumed # -1

\* the step is taken by run's loop
LoopStep == sim[1].phase = "running" /\ sim'[1] # sim[1]

\* C40: an iteration of run below the iteration cap returns exactly when, the wake
\* queue drained, no event is ready and no sleep is pending; a task that is parked in
\* blocked is polled only if a wake of it was in the queue the iteration drained; while
\* run is returned final_blocked_tasks is the number of parked tasks; and a run called
\* after a wake was recorded for a parked task does not return before that task was
\* polled.
C40_RunReturnsWhenIdle ==
    /\ [][LoopStep =>
            (sim'[1].phase = "finished" <=>
                /\ sim[1].iterations < MAX_ITERATIONS
                /\ DrainWakes(sim[1]).events = <<>>
                /\ DrainWakes(sim[1]).sleeps = {})]_vars
    /\ [][LoopStep /\ sim'[1].phase = "running" /\ PolledIn(sim'[1]) \in Blocked(sim[1])
            => PolledIn(sim'[1]) \in WakesOf(sim[1])]_vars
    /\ [](sim[1].phase = "finished"
            => sim[1].final_blocked_tasks = Cardinality(sim[1].blocked))
    /\ [][RunReturns /\ last_call.runs = MaxRuns => last_call'.owed = {}]_vars

\* the first run returned with the receiving task parked, its owner then sent on the
\* channel, and the second run polled the task and returned after one iteration with
\* no task parked
C40_Witness ==
    /\ sim[1].phase = "finished" /\ last_call.runs = 2
    /\ Len(sim[1].channels) = 1 /\ sim[1].channels[1].duration = -1
    /\ sim[1].channels[1].resumed # -1
    /\ sim[1].iterations = 1 /\ sim[1].final_blocked_tasks = 0

\* run has returned with a task parked
C40_WitnessParked ==
    /\ sim[1].phase = "finished"
    /\ sim[1].final_blocked_tasks = 1 /\ Blocked(sim[1]) # {}

\* a wake was recorded after run returned, for a task that is parked
C40_WitnessLateWake ==
    /\ sim[1].phase = "finished"
    /\ WakesOf(sim[1]) \cap Blocked(sim[1]) # {}


\* the smallest unoccupied position of a bus
TrueTail(b) ==
    IF \A a \in Positions : Occupied(spaces, b, a) THEN Cardinality(Positions)
    ELSE CHOOSE a \in Positions :
            ~Occupied(spaces, b, a) /\ \A q \in Positions : q < a => Occupied(spaces, b, q)

\* C36: in every reachable state the cached next_position of every handle, for every
\* bus, is at most the bus's true tail: every position below the cached value is
\* occupied, while proposes and polls of the handle's clones and of other handles
\* interleave and also after the space's backend has stopped.
C36_CacheAtMostTail ==
    \A h \in Handles, b \in ValidBusIds :
        /\ next_positions[h][b] <= TrueTail(b)
        /\ \A a \in Positions : a < next_positions[h][b] => Occupied(spaces, b, a)

\* two handles hold different caches above zero while a call is in flight, and a
\* propose has lost a cell to a competitor
C36_Witness ==
    /\ next_positions[1][BusA] >= 1 /\ next_positions[2][BusA] >= 1
    /\ next_positions[1][BusA] # next_positions[2][BusA]
    /\ \E p \in Procs : call[p].op \in {"propose", "poll"}
    /\ \E i \in OkProposals : returned[i].pos > returned[i].first

\* the cache of a handle lies below the true tail and at or below a position a
\* propose of the handle has returned: a clone's call set it back
C36_WitnessSetBack ==
    \E h \in Handles :
        /\ MaxReturned(h) >= 0
        /\ next_positions[h][BusA] <= MaxReturned(h)
        /\ next_positions[h][BusA] < TrueTail(BusA)


ErrProposals == {i \in 1..Len(returned) : returned[i].state = "err"}
\* task p takes the BackendUnavailable arm of propose's write loop in this step
ProposeFails(p) ==
    /\ call[p].op = "propose" /\ reply[p].state # "none"
    /\ CallWriteResult(reply[p]) = BackendUnavailable
    /\ call'[p] # call[p]

\* C37: when a write of propose reports BackendUnavailable (the channeled space's
\* backend is gone, or its channel is closed) propose returns that error at once: no
\* further write is sent, no cell changes, and the cached next_position is left as it
\* is.  Neither has the call written the cache before: a conflict advances only the
\* local position.  No cell ever holds the payload of a propose that returned the
\* error.
C37_UnavailableSurfaced ==
    /\ [][\A p \in Procs : ProposeFails(p) =>
            /\ call'[p] = WoIdle
            /\ returned'[call[p].id].state = "err"
            /\ returned'[call[p].id].err = "BackendUnavailable"
            /\ chan' = chan /\ spaces' = spaces
            /\ next_positions' = next_positions]_vars
    /\ [][\A p \in Procs :
            (call[p].op = "propose" /\ call'[p].op = "propose"
               /\ call'[p].position # call[p].position)
            => next_positions' = next_positions]_vars
    /\ [](\A i \in ErrProposals :
            /\ returned[i].err = "BackendUnavailable"
            /\ \A a \in Positions : StateRead(spaces, BusA, a) # Some(returned[i].bytes))

\* a propose lost its first cell to a competitor, retried one cell on, met the stopped
\* backend there and returned the error; its handle's cache still holds the position
\* the call started from, below the occupied cell
C37_Witness ==
    \E i \in ErrProposals :
        /\ returned[i].pos > returned[i].first
        /\ next_positions[returned[i].handle][BusA] = returned[i].first
        /\ Occupied(spaces, BusA, returned[i].first)
        /\ ~Occupied(spaces, BusA, returned[i].pos)
        /\ \A p \in Procs : call[p].op = "idle"

\* the write was never sent: the channel was closed when propose was called
C37_WitnessClosed ==
    \E i \in ErrProposals :
        /\ returned[i].pos = returned[i].first
        /\ \A j \in 1..Len(returned) : j < i => returned[j].state # "pending"
        /\ ~backendAlive


\* a poll of BusA that went through the tail scan has finished
ScannedPoll(p) ==
    /\ call[p].op = "done" /\ call[p].phase = "poll" /\ call[p].bus = BusA
    /\ ~(call[p].filter.some /\ call[p].filter.types = {})
\* the cells from the poll's start up to position a (excluded) that decode and match
\* its filter
MatchingBefore(c, a) ==
    Cardinality({q \in Positions :
        /\ c.start <= q /\ q < a
        /\ Occupied(spaces, BusA, q)
        /\ deserialize_payload(StateRead(spaces, BusA, q).bytes) # DecodeError
        /\ payload_matches_filter(deserialize_payload(StateRead(spaces, BusA, q).bytes),
                                  c.filter)})
EntryOf(i) == [log_position |-> returned[i].pos, payload |-> Intention(Body(i))]
Returns(c, e) == \E k \in 1..Len(c.entries) : c.entries[k] = e

C34_WitnessPastCap ==
    \E p \in Procs : ScannedPoll(p) /\ backendAlive /\
        \E i \in call[p].after :
            /\ returned[i].pos > call[p].start
            /\ call[p].end_position > returned[i].pos
            /\ ~call[p].complete
            /\ ~Returns(call[p], EntryOf(i))

\* a poll raced with a propose: the propose has returned a position the poll's scan
\* had already found empty, and the poll's answer is without the entry
C34_WitnessRaced ==
    \E p \in Procs : ScannedPoll(p) /\ backendAlive /\
        \E i \in OkProposals \ call[p].after :
            /\ returned[i].pos >= call[p].end_position
            /\ returned[i].pos >= call[p].start
            /\ call[p].complete
            /\ ~Returns(call[p], EntryOf(i))

\* the space's backend stopped after the propose returned: the poll's reads come back
\* absent and its answer is without the entry
C34_WitnessSpaceGone ==
    \E p \in Procs : ScannedPoll(p) /\ ~backendAlive /\
        \E i \in call[p].after :
            /\ call[p].end_position <= returned[i].pos
            /\ call[p].complete


(***************************************************************************)
(* WriteOnceAgentBus::poll on a quiescent bus: one handle polls a space    *)
(* whose cells nobody writes meanwhile.  The space holds a dense log whose *)
(* cells are encoded payloads or bytes that are no message; the handle's   *)
(* cached position is anywhere up to the tail.                             *)
(***************************************************************************)
MaxCells == 3          \* cells of the short logs

\* bytes that do not decode
Garbage == <<"not a message">>
CellValues ==
    {serialize_payload(Intention("x")), serialize_payload(Vote(0, "true", NoLlm)),
     serialize_payload(EmptyPayload), Garbage}
\* a log longer than the poll cap: an undecodable cell, then 65 intentions
LongLog == [i \in 1..(BurstLen + 1) |->
               IF i = 2 THEN Garbage ELSE serialize_payload(FillPayload)]
RECURSIVE LogsOfLen(_)
LogsOfLen(n) ==
    IF n = 0 THEN {<<>>}
    ELSE {Append(l, v) : l \in LogsOfLen(n - 1), v \in CellValues}
QuietLogs == UNION {LogsOfLen(n) : n \in 0..MaxCells} \cup {LongLog}
QuietPositions == 0..(BurstLen + 2)
QuietPollRequests ==
    {PollRequest(BusA, start, max, f) :
        start \in {-1, 0, 1, 2, MaxCells}, max \in {-1, 0, 1, 2, 1000}, f \in SeqFilters}
        \cup {PollRequest(BusMax, 0, 1000, NoFilter)}

\* the variables a poll of the quiescent bus leaves alone
outsideQuiet == <<spaces, chan, backendAlive, reply, call, okCount, firstWritten, nProposed,
                 returned, buses, decider, linVars, sim, fault>>

\* the poll call of a behaviour; last_call keeps the request, the cached position the
\* call found and the response
QuietPoll(rq) ==
    LET wo == WoPoll(spaces, next_positions, SeqHandle, rq) IN
    /\ last_call = <<>>
    /\ next_positions' = wo.next_positions
    /\ last_call' = [request |-> rq,
                     cache_before |-> get_next_position(next_positions, SeqHandle, rq.bus_id),
                     entries |-> wo.entries, complete |-> wo.complete]
    /\ UNCHANGED outsideQuiet

\* WriteOnceAgentBus::new over a space that holds a log
InitQuiet ==
    /\ \E l \in QuietLogs :
        /\ spaces = [b \in {BusA} |->
                       [a \in QuietPositions |-> IF a < Len(l) THEN Some(l[a + 1]) ELSE None]]
        /\ \E c \in {0, 1, Len(l)} :
              /\ c <= Len(l)
              /\ next_positions = [h \in {SeqHandle} |-> [b \in SeqBusIds |-> IF b = BusA THEN c ELSE 0]]
    /\ last_call = <<>>
    /\ buses = NoBuses /\ returned = <<>> /\ nProposed = 0
    /\ chan = <<>> /\ backendAlive = TRUE /\ reply = <<>> /\ call = <<>>
    /\ okCount = <<>> /\ firstWritten = <<>>
    /\ decider = DeciderIdle
    /\ LinUnused /\ SimUnused /\ FaultUnused

NextQuiet == \E rq \in QuietPollRequests : QuietPoll(rq)

SpecQuiet == InitQuiet /\ [][NextQuiet]_vars

\* the tail of the bus: the number of its cells, which are a prefix
QuietTail(bus_id) == Cardinality({a \in QuietPositions : Occupied(spaces, bus_id, a)})
\* the payload in the cell at a
Decoded(bus_id, a) == deserialize_payload(StateRead(spaces, bus_id, a).bytes)
\* the positions a poll request asks for: at or after max(start, 0), below the tail,
\* decodable and matching the filter
Eligible(rq) ==
    LET T == QuietTail(rq.bus_id) IN
    {a \in QuietPositions :
        /\ a < T
        /\ a >= rq.start_log_position /\ a >= 0
        /\ Decoded(rq.bus_id, a) # DecodeError
        /\ IF rq.filter.some
           THEN Decoded(rq.bus_id, a).kind \in rq.filter.types
           ELSE TRUE}
\* min(max as usize, 64): a negative max_entries is a large usize
CapOf(rq) ==
    IF rq.max_entries < 0 \/ rq.max_entries > 64 THEN 64 ELSE rq.max_entries

\* C35: on a quiescent bus with tail T a poll returns exactly the first
\* min(max, 64) of the decodable entries matching the filter among the positions
\* max(start, 0)..T-1, in ascending order of position, each with header.log_position
\* the address of the cell it was read from and with that cell's payload; with
\* start >= T it returns no entries and complete = true.
C35_QuiescentPoll ==
    last_call # <<>> =>
        LET rq == last_call.request
            es == last_call.entries
            eligible == Eligible(rq)
            n == IF Cardinality(eligible) < CapOf(rq)
                 THEN Cardinality(eligible) ELSE CapOf(rq) IN
        /\ Len(es) = n
        /\ \A k \in 1..Len(es) :
              /\ es[k].log_position \in eligible
              /\ Cardinality({a \in eligible : a < es[k].log_position}) = k - 1
              /\ es[k].payload = Decoded(rq.bus_id, es[k].log_position)
        /\ rq.start_log_position >= QuietTail(rq.bus_id)
              => es = <<>> /\ last_call.complete

\* a poll with a filter returned the entries at positions 0 and 2: the cell between
\* them does not decode
C35_Witness ==
    /\ last_call # <<>>
    /\ last_call.request.filter.some /\ last_call.request.max_entries = 2
    /\ Len(last_call.entries) = 2
    /\ last_call.entries[1].log_position = 0 /\ last_call.entries[2].log_position = 2
    /\ StateRead(spaces, BusA, 1) = Some(Garbage)
    /\ last_call.complete

\* a poll from position 1 with a cap of 1 returned the entry at 1 and not the matching
\* one after it
C35_WitnessFirstOnly ==
    /\ last_call # <<>>
    /\ last_call.request.start_log_position = 1 /\ last_call.request.max_entries = 1
    /\ Cardinality(Eligible(last_call.request)) = 2
    /\ Len(last_call.entries) = 1 /\ last_call.entries[1].log_position = 1
    /\ ~last_call.complete

\* the log is longer than the cap: 64 entries come back, an undecodable cell skipped
C35_WitnessCap ==
    /\ last_call # <<>>
    /\ QuietTail(BusA) > MAX_POLL_ENTRIES
    /\ last_call.request.max_entries = 1000
    /\ Len(last_call.entries) = MAX_POLL_ENTRIES
    /\ last_call.entries[2].log_position = 2
    /\ ~last_call.complete

\* start is at or past the tail of a bus that holds entries
C35_WitnessPastTail ==
    /\ last_call # <<>>
    /\ QuietTail(BusA) > 0
    /\ last_call.request.bus_id = BusA
    /\ last_call.request.start_log_position >= QuietTail(BusA)
    /\ last_call.entries = <<>> /\ last_call.complete

\* a negative start is taken for 0
C35_WitnessNegativeStart ==
    /\ last_call # <<>>
    /\ last_call.request.start_log_position < 0
    /\ last_call.entries # <<>> /\ last_call.entries[1].log_position = 0


(***************************************************************************)
(* The Decider on a bus that holds more entries than one poll returns.     *)
(* The Decider is constructed over an in-memory log with a backlog; it     *)
(* runs pass after pass, its verdicts extend the log it reads, and a       *)
(* client appends entries meanwhile.                                       *)
(***************************************************************************)
MaxLateEntries == 1    \* entries a client appends while the Decider runs

BacklogLen == MAX_POLL_ENTRIES + 2
\* intentions only
BacklogIntentions == [i \in 1..BacklogLen |-> Intention(Body(1))]
\* policy entries among the intentions, and an entry the Decider's filter leaves out
BacklogPolicies ==
    [i \in 1..BacklogLen |->
        IF i = 1 THEN DeciderPolicy("OffByDefault")
        ELSE IF i = 3 THEN MkPayload("InferenceInput", 0, "", "")
        ELSE IF i = MAX_POLL_ENTRIES THEN DeciderPolicy("OnByDefault")
        ELSE Intention(Body(2))]
\* each intention followed by a vote on it
BacklogVotes ==
    [i \in 1..BacklogLen |->
        IF i % 2 = 1 THEN Intention(Body(3)) ELSE Vote(i - 2, "true", NoLlm)]
Backlogs == {BacklogIntentions, BacklogPolicies, BacklogVotes}
LateEntries == {Intention(Body(4)), DeciderPolicy("OffByDefault")}

\* a client appends an entry to the bus the Decider reads
LatePropose(pl) ==
    /\ ClientEntryCount < BacklogLen + MaxLateEntries
    /\ buses' = MemPropose(buses, BusD, pl).buses
    /\ UNCHANGED <<decider, outsideDecider>>

\* Decider::new over a bus that holds a backlog
InitBacklog ==
    /\ WoNew
    /\ LinUnused
    /\ SimUnused
    /\ SeqUnused /\ FaultUnused
    /\ \E log \in Backlogs : buses = [b \in {BusD} |-> log]
    /\ \E policy \in DeciderPolicies : decider = DeciderNew(policy)

NextBacklog ==
    \/ \E pl \in LateEntries : LatePropose(pl)
    \/ DeciderPoll
    \/ DeciderProcess

SpecBacklog == InitBacklog /\ [][NextBacklog]_vars

\* The Decider keeps running passes: run polls again after every pass, at once or
\* after its sleep, and every propose and poll of the bus succeeds.
\* Weak fairness of DeciderProcess and of DeciderPoll, written out: a pass in progress
\* is the only state in which DeciderProcess can step, and DeciderPoll changes the state
\* exactly when it starts a pass, which it does when an entry of the polled types lies at
\* or after next_log_position.
PollFinds ==
    /\ ~decider.in_pass
    /\ \E q \in 0..(Len(Log) - 1) :
          q >= decider.next_log_position /\ Log[q + 1].kind \in DeciderFilter.types
PassStarts == ~decider.in_pass /\ decider'.in_pass
EntryProcessed == decider.in_pass /\ decider'.batch # decider.batch
SpecBacklogLive ==
    /\ InitBacklog
    /\ [][NextBacklog]_vars
    /\ ([]<>(~PollFinds) \/ []<><<PassStarts>>_vars)
    /\ ([]<>(~decider.in_pass) \/ []<><<EntryProcessed>>_vars)


\* the entries the Decider's poll asks for
Relevant(pl) == pl.kind \in DeciderFilter.types
\* the Decider processes the next entry of its pass in this step
ProcessStep == decider.in_pass /\ decider'.batch # decider.batch
\* every entry the Decider's poll asks for is below next_log_position
CaughtUp ==
    /\ ~decider.in_pass
    /\ \A q \in 0..(Len(Log) - 1) : Relevant(Log[q + 1]) => q < decider.next_log_position
DefaultPolicies == {"OnByDefault", "OffByDefault"}

\* C38: with a bus whose calls succeed and a Decider that keeps running passes,
\* next_log_position never decreases; every entry the Decider processes lies at or
\* after next_log_position, is the log's entry at its position, has no entry of the
\* polled types between next_log_position and itself, and leaves next_log_position at
\* its position plus one, so that the polled entries are processed once each and in
\* log order, across polls that return 64 entries of a longer log and while the
\* Decider's verdicts extend the log; the intentions registered are the Intention
\* entries below next_log_position; every intention registered under OnByDefault or
\* OffByDefault has one verdict in the log; and the Decider eventually has processed
\* every polled entry of the log.
C38_EveryEntryOnce ==
    /\ [][decider'.next_log_position >= decider.next_log_position]_vars
    /\ [][ProcessStep =>
            LET p == Head(decider.batch).log_position IN
            /\ p >= decider.next_log_position
            /\ p < Len(Log) /\ Log[p + 1] = Head(decider.batch).payload
            /\ \A q \in decider.next_log_position..(p - 1) : ~Relevant(Log[q + 1])
            /\ decider'.next_log_position = p + 1]_vars
    /\ [](DOMAIN decider.intention_states =
            {q \in 0..(decider.next_log_position - 1) : Log[q + 1].kind = "Intention"})
    /\ [](LET log == Log
               registered == {p \in DOMAIN decider.intention_states :
                                decider.intention_states[p].policy \in DefaultPolicies}
               verdicts == {v \in 1..Len(log) : IsVerdict(log[v]) /\ log[v].ref \in registered}
           IN  /\ registered \subseteq {log[v].ref : v \in verdicts}
               /\ Cardinality(verdicts) = Cardinality(registered))
    /\ <>[]CaughtUp

\* the Decider has processed a log of more than twice the poll cap, its own verdicts
\* and an intention a client appended meanwhile included, and that intention has its
\* verdict
C38_Witness ==
    /\ CaughtUp
    /\ decider.next_log_position = Len(Log)
    /\ Len(Log) > 2 * MAX_POLL_ENTRIES
    /\ \E p \in DOMAIN decider.intention_states :
          /\ p >= BacklogLen
          /\ decider.intention_states[p].policy \in DefaultPolicies
          /\ Verdicts(p) # {}

\* a pass holds 64 entries of a log with more polled entries, verdicts of this pass
\* are already in the log behind them
C38_WitnessPaging ==
    /\ decider.in_pass
    /\ Len(decider.batch) > 1
    /\ decider.batch[Len(decider.batch)].log_position < BacklogLen - 1
    /\ Len(Log) > BacklogLen + 2
    /\ IsVerdict(Log[Len(Log)])

\* the Decider skipped an entry its filter leaves out and processed the one after it
C38_WitnessSkipped ==
    /\ decider.next_log_position > 3
    /\ ~Relevant(Log[3])

====
